---------------------------- MODULE Spec2Model ----------------------------
(***************************************************************************)
(* EtherDFS (PicoMEM build): the transaction engine sendquery(), the       *)
(* packet-driver receive upcall pktdrv_recv() and the 8-bit BIOS tick      *)
(* counter they are timed by, as found in src/Ethdfs83/etherdfs.c.         *)
(*                                                                         *)
(* The foreground (sendquery) is cut into steps at every access to the     *)
(* state it shares with the upcall (the length word                        *)
(* glob_pktdrv_recvbufflen and the buffer glob_pktdrv_recvbuff) and at     *)
(* every read of the tick counter; the upcall's two calls and the tick     *)
(* interleave freely with these steps.                                     *)
(***************************************************************************)
EXTENDS Integers, Naturals, Sequences, FiniteSets, TLC

(***************************************************************************)
(* Program constants                                                       *)
(***************************************************************************)
FRAMESIZE == 1090

\* sizeof(glob_pktdrv_sndbuff): the send buffer (declared in globals.h)
\* holds one frame
SndBuffSize == FRAMESIZE

\* number of transmit attempts of one transaction (for count = 5; ...)
AttemptsSix == 5 + 1

Attempts == 5

\* value returned by sendquery on timeout
TimeoutResult == 65535

\* bit 7 of byte 56: checksum enabled
CksumFlag == 128

\* protocol version stored in the low bits of byte 56
PROTOVER == 2

\* enum AL_SUBFUNCTIONS
AL_RMDIR == 1

AL_MKDIR == 3

AL_CHDIR == 5

AL_CLSFIL == 6

AL_CMMTFIL == 7

AL_READFIL == 8

AL_WRITEFIL == 9

AL_LOCKFIL == 10

AL_UNLOCKFIL == 11

AL_DISKSPACE == 12

AL_SETATTR == 14

AL_GETATTR == 15

AL_RENAME == 17

AL_DELETE == 19

AL_OPEN == 22

AL_CREATE == 23

AL_FINDFIRST == 27

AL_FINDNEXT == 28

AL_SKFMEND == 33

AL_UNKNOWN_2D == 45

AL_SPOPNFIL == 46

(***************************************************************************)
(* Bounds of the model                                                     *)
(***************************************************************************)
\* number of sendquery calls in one behaviour
MaxTrans == 2

\* the tick counter stops advancing once it is this many ticks past t (and
\* no longer at 0)
MaxAdvance == 2

\* INT 2F requests handled in one behaviour of the dispatcher
MaxCalls == 2

\* sendquery calls made by one READFIL or WRITEFIL request
MaxExch == 3

(***************************************************************************)
(* Addresses, drive map                                                    *)
(***************************************************************************)
LocalMac == <<2, 0, 0, 0, 0, 1>>

PeerMac == <<2, 170, 187, 204, 221, 238>>

OtherMac == <<2, 0, 0, 0, 0, 9>>

BroadcastMac == <<255, 255, 255, 255, 255, 255>>

\* GLOB_LMAC: the local address, set once by pktdrv_getaddr
GLOB_LMAC == LocalMac

\* glob_data.ldrv: local drive C: (2) is mapped to remote drive D: (3) and
\* F: (5) to A: (0)
ldrv == [d \in 0..25 |-> IF d = 2 THEN 3 ELSE IF d = 5 THEN 0 ELSE 255]

\* glob_reqdrv: the local drive the dispatcher resolved for the request
glob_reqdrv == 2

(***************************************************************************)
(* 16-bit helpers                                                          *)
(***************************************************************************)
\* little-endian 16-bit word made of two bytes, (unsigned short *)buff[i]
Word16(lo, hi) == lo + 256 * hi

\* ror bx, 1
Ror16(x) == (x \div 2) + (x % 2) * 32768

RECURSIVE bsdsumFrom(_, _, _)
bsdsumFrom(data, i, bx) ==
  IF i > Len(data) THEN bx
  ELSE bsdsumFrom(data, i + 1, (Ror16(bx) + data[i]) % 65536)

\* BSD checksum of the bytes of data (at least one byte)
bsdsum(data) == bsdsumFrom(data, 1, 0)

\* value of an unsigned char after ++
IncByteStuck(b) == b

IncByte(b) == (b + 1) % 256

(***************************************************************************)
(* Frames on the wire.  A frame is kept by its fields at the fixed offsets *)
(* the code reads: dmac = bytes 0..5, smac = bytes 6..11, etype = bytes    *)
(* 12..13, lenfld = the word at 52..53, cksum = the word at 54..55, tail = *)
(* the bytes from offset 56 on (56 version, 57 sequence, 58..59 status AX, *)
(* 60.. payload; padding behind the bytes that lenfld covers is not kept). *)
(* len is the length the link driver announces in CX.                      *)
(***************************************************************************)
EtherType == <<237, 245>>

IpType == <<8, 0>>

\* bytes 56.. of a reply to the request with sequence s: status 0 and a
\* six-byte payload (the answer to DISKSPACE)
ReplyTail(s) == <<PROTOVER, s, 0, 0, 0, 1, 0, 2, 128, 0>>

GoodReply(s) ==
  [len |-> 66, dmac |-> LocalMac, smac |-> PeerMac, etype |-> EtherType,
   lenfld |-> 66, cksum |-> bsdsum(ReplyTail(s)), tail |-> ReplyTail(s)]

FrameKinds ==
  {"ok", "full", "badsum", "oldseq", "otherdst", "othersrc",
   "badtype", "runt", "truncated", "lenlow", "giant", "short"}

\* the frames the link driver may offer while the request with sequence s is
\* (or was last) outstanding: the peer's reply, that reply padded to the
\* largest frame the buffer takes, that reply with one defect, and a sound
\* reply that carries four bytes of payload instead of six
Frame(kind, s) ==
  LET g == GoodReply(s) IN
  CASE kind = "ok"        -> g
    [] kind = "full"      -> [g EXCEPT !.len = FRAMESIZE]
    [] kind = "badsum"    -> [g EXCEPT !.cksum = (g.cksum + 1) % 65536]
    [] kind = "oldseq"    -> GoodReply((s + 255) % 256)
    [] kind = "otherdst"  -> [g EXCEPT !.dmac = BroadcastMac]
    [] kind = "othersrc"  -> [g EXCEPT !.smac = OtherMac]
    [] kind = "badtype"   -> [g EXCEPT !.etype = IpType]
    [] kind = "runt"      -> [g EXCEPT !.len = 59, !.lenfld = 59,
                                       !.tail = SubSeq(g.tail, 1, 3)]
    [] kind = "truncated" -> [g EXCEPT !.lenfld = 68]
    [] kind = "lenlow"    -> [g EXCEPT !.lenfld = 59]
    [] kind = "giant"     -> [g EXCEPT !.len = FRAMESIZE + 1]
    [] kind = "short"     -> [g EXCEPT !.lenfld = 64,
                                       !.cksum = bsdsum(SubSeq(g.tail, 1, 8))]

\* GLOB_RMAC before it was given a value
UnsetMac == <<0, 0, 0, 0, 0, 0>>

\* line 1894: for (i = 0; glob_data.ldrv[i] == 0xff; i++);
RECURSIVE FirstMapped(_)
FirstMapped(i) == IF ldrv[i] = 255 THEN FirstMapped(i + 1) ELSE i

\* the drives of the map
MappedDrives == {d \in 0..25 : ldrv[d] # 255}

\* getcds(): the host has a current-directory structure for the drives
\* 0..lastdrv
LASTDRIVE == 5

\* lines 1907..1916: the structure of every drive of the map m becomes
\* network and physical, its current path the root ('A' + d, ':', '\')
MarkDrives(cdsf, m) ==
  [d \in DOMAIN cdsf |->
     IF m[d] # 255
       THEN [flags |-> {"CDSFLAG_NET", "CDSFLAG_PHY"},
             current_path |-> <<65 + d, 58, 92>>]
       ELSE cdsf[d]]

\* the current-directory structures when main() goes on after its test of
\* the mapped drives (flags 0: lines 1810..1822 make sure of it) and as
\* lines 1907..1916 leave them
CdsFree == [d \in 0..LASTDRIVE |-> [flags |-> {}, current_path |-> <<>>]]

CdsMarked == MarkDrives(CdsFree, ldrv)

\* content of the receive buffer before any frame was copied into it
NoFrame ==
  [len |-> 0, dmac |-> <<0, 0, 0, 0, 0, 0>>, smac |-> <<0, 0, 0, 0, 0, 0>>,
   etype |-> <<0, 0>>, lenfld |-> 0, cksum |-> 0, tail |-> <<>>]

(***************************************************************************)
(* State                                                                   *)
(***************************************************************************)
VARIABLES
  pc,                       \* position of the foreground
  seq,                      \* static unsigned char seq of sendquery
  count,                    \* attempts left (loop variable of sendquery)
  t,                        \* tick counter value read after transmitting
  bufflen,                  \* frame length of the request (payload + 60)
  updatermac,               \* learn flag of the current call
  result,                   \* value returned by the last sendquery call
  rtc,                      \* low byte of the BIOS tick counter at 0x46C
  glob_pktdrv_recvbufflen,  \* length word (sentinel) of the receive buffer
  glob_pktdrv_recvbuff,     \* the receive buffer
  glob_pktdrv_sndbuff,      \* the send buffer (per-transaction fields)
  GLOB_RMAC,                \* peer address (bytes 0..5 of the send buffer)
  copying,                  \* the link driver is copying a frame
  installed,                \* the resident part answers INT 2F requests
  ntrans,                   \* calls of sendquery made so far
  txcount,                  \* frames transmitted by the current call
  lastTx,                   \* sequence byte of the frame transmitted last
  intime,                   \* the frame in the buffer was completed inside
                            \* the wait window of an attempt
  cksumdrop                 \* a reply failed the checksum in this attempt

VARIABLES
  p2f,                      \* position of inthandler and process2f: "ret"
                            \* (process2f is over; not running),
                            \* "entry", "wait" (at a call of sendquery),
                            \* "iret" (a private call was answered) or
                            \* "chain" (passed to the previous handler)
  subfunction,              \* AL of the request, remembered at entry
  glob_intregs,             \* registers of the caller (ax, bx, cx, dx, di,
                            \* bl = low byte of bx, cf = carry flag)
  sft,                      \* the SFT entry at ES:DI
  glob_sdaptr,              \* swappable data area: fn1, fn2, current
                            \* directory, search attribute, found_file ...
  dta,                      \* the caller's disk transfer area
  loc,                      \* locals of process2f
  pending,                  \* arguments of the sendquery call being made
  sent,                     \* requests transmitted for the current call
  ncalls,                   \* INT 2F requests handled so far
  onesft                    \* history: every request so far was an OPEN, a
                            \* READFIL or a WRITEFIL on one SFT entry, and
                            \* no reply carried more bytes than asked

\* main()
VARIABLES
  args_auto,                \* ARGFL_AUTO: the peer is to be discovered
  drive_cds,                \* flags and current path of the current-
                            \* directory structure of each mapped drive
  pktdrv_open,              \* the packet driver handle is registered
  exitstatus,               \* value main() returned, -1 while it has not
  startup,                  \* position of main(): "parse", "check",
                            \* "pktdrv", "discover", "mark", "resident"
                            \* or "exit"
  argv,                     \* arguments parseargv has not looked at yet
  glob_data_ldrv,           \* glob_data.ldrv as the arguments build it
  gotmac                    \* parseargv has seen a peer address

svars ==
  <<args_auto, drive_cds, pktdrv_open, exitstatus, startup, argv,
    glob_data_ldrv, gotmac>>

dvars ==
  <<p2f, subfunction, glob_intregs, sft, glob_sdaptr, dta, loc, pending, sent,
    ncalls, onesft>>

vars ==
  <<pc, seq, count, t, bufflen, updatermac, result, rtc,
    glob_pktdrv_recvbufflen, glob_pktdrv_recvbuff, glob_pktdrv_sndbuff,
    GLOB_RMAC, copying, installed, ntrans, txcount, lastTx, intime,
    cksumdrop, dvars, svars>>

fgvars ==
  <<pc, seq, count, t, bufflen, updatermac, result, glob_pktdrv_sndbuff,
    GLOB_RMAC, installed, ntrans, txcount, lastTx, cksumdrop, dvars,
    svars>>

\* value of the tick counter at the moment a request of the dispatcher
\* starts (any time may have passed since the previous one)
RtcStart == {253, 254}

\* the wait window of an attempt: the counter is less than two ticks past t
WindowTicks == 2

\* ticks counted since t was read, as an unsigned char difference
Advance == (rtc - t) % 256

\* the foreground is inside the wait loop of an attempt
Waiting == pc \in {"poll", "look", "validate", "cksum"}

(***************************************************************************)
(* Data of the INT 2F dispatcher.  Strings are sequences of character      *)
(* codes without the terminating 0.                                        *)
(***************************************************************************)
\* "C:\A", the path of a file or directory on the mapped drive
PathDir == <<67, 58, 92, 65>>

\* values of glob_sdaptr->fn1: "", "C", "C:", "C:\A" and "C:\*"
Fn1Set == {<<>>, <<67>>, <<67, 58>>, PathDir, <<67, 58, 92, 42>>}

\* "F:\A", a path on the other mapped drive
Fn1OnF == <<70, 58, 92, 65>>

\* values of glob_sdaptr->fn2: "C:\B", "C:\?" and "D:\B"
Fn2Set == {<<67, 58, 92, 66>>, <<67, 58, 92, 63>>, <<68, 58, 92, 66>>}

\* values of glob_sdaptr->drive_cdsptr, the current directory of the drive:
\* "C:\A" and "C:\A\B"
CdsSet == {PathDir, <<67, 58, 92, 65, 92, 66>>}

\* '?' and '*'
WildcardsStarOnly == {42}

Wildcards == {63, 42}

\* s[i] of the C string s (i counts from 0), the terminator included
CharAt(s, i) == IF i < Len(s) THEN s[i + 1] ELSE 0

mystrlen(s) == Len(s)

RECURSIVE len_if_no_wildcards_from(_, _)
len_if_no_wildcards_from(s, r) ==
  IF CharAt(s, r) = 0 THEN r
  ELSE IF CharAt(s, r) \in Wildcards THEN 0 - 1
  ELSE len_if_no_wildcards_from(s, r + 1)

len_if_no_wildcards(s) == len_if_no_wildcards_from(s, 0)

\* s + 2: the string without its first two characters
SkipDrive(s) == SubSeq(s, 3, Len(s))

\* the word DOS pushed on the stack (open mode, attributes)
glob_reqstkword == 2

\* the file id the peer gave when the file was opened
FileId == 4660

Regs0 == [ax |-> 0, bx |-> 0, cx |-> 0, dx |-> 0, di |-> 0, cf |-> 0]

Sft0 ==
  [handle_count |-> 1, open_mode |-> 2, file_attr |-> 0,
   dev_info_word |-> 32832 + glob_reqdrv, dev_drvr_ptr |-> 0,
   start_sector |-> FileId,
   file_time |-> 0, file_size |-> 4096, file_pos |-> 0, rel_sector |-> 0,
   abs_sector |-> 0, dir_sector |-> 0, dir_entry_no |-> 0,
   file_name |-> <<>>]

FoundFile0 ==
  [fname |-> <<>>, fattr |-> 0, time_lstupd |-> 0, date_lstupd |-> 0,
   start_clstr |-> 0, fsize |-> 0]

\* eleven spaces
Blank11 == [i \in 1..11 |-> 32]

Sda0 ==
  [fn1 |-> PathDir, fn2 |-> <<67, 58, 92, 66>>, drive_cdsptr |-> PathDir,
   fcb_fn1 |-> Blank11, srch_attr |-> 16, spop_act |-> 1, spop_mode |-> 2,
   found_file |-> FoundFile0]

\* fill: bytes of the data area written by READFIL; the other fields are the
\* search data block of FINDFIRST and FINDNEXT
Dta0 ==
  [fill |-> 0, drv_lett |-> 0, srch_tmpl |-> <<>>, srch_attr |-> 0,
   par_clstr |-> 0, dir_entry |-> 0, entry |-> FoundFile0]

\* val, st and ans are what the last sendquery call returned: its value, *ax
\* and the bytes at answer; reqdrv is glob_reqdrv as inthandler set it for
\* the request process2f is working on
Loc0 ==
  [totreadlen |-> 0, chunklen |-> 0, written |-> 0, bytesleft |-> 0,
   val |-> 0, st |-> 0, ans |-> <<>>, reqdrv |-> 0]

NoQuery == [op |-> 0, drive |-> 0, plen |-> 0, pay |-> <<>>]

\* no INT 2F request has been made
NoCall ==
  /\ p2f = "ret"
  /\ subfunction = 0
  /\ glob_intregs = Regs0
  /\ sft = Sft0
  /\ glob_sdaptr = Sda0
  /\ dta = Dta0
  /\ loc = Loc0
  /\ pending = NoQuery
  /\ sent = <<>>
  /\ ncalls = 0
  /\ onesft = TRUE

\* The behaviour starts either in main() with auto-discovery, right before
\* the discovery query (nothing was sent yet, seq is 0), or in the resident
\* program with a configured peer after 254 transactions.
Init ==
  /\ pc = "idle"
  /\ count = 0
  /\ t = 0
  /\ bufflen = 0
  /\ updatermac = 0
  /\ result = 0
  /\ rtc = 255
  /\ glob_pktdrv_recvbufflen = 0
  /\ glob_pktdrv_recvbuff = NoFrame
  /\ \E ck \in {0, CksumFlag} :
       glob_pktdrv_sndbuff =
         [b56 |-> PROTOVER + ck, b57 |-> 0, b58 |-> 0, b59 |-> 0,
          len |-> 0, cksum |-> 0, pay |-> <<>>]
  /\ \E auto \in BOOLEAN :
       /\ args_auto = auto
       /\ installed = ~auto
       /\ drive_cds = IF auto THEN CdsFree ELSE CdsMarked
       /\ GLOB_RMAC = IF auto THEN UnsetMac ELSE PeerMac
       /\ seq = IF auto THEN 0 ELSE 254
       /\ startup = IF auto THEN "discover" ELSE "resident"
  /\ pktdrv_open = TRUE
  /\ exitstatus = 0 - 1
  /\ argv = <<>>
  /\ glob_data_ldrv = ldrv
  /\ gotmac = TRUE
  /\ copying = FALSE
  /\ ntrans = 0
  /\ txcount = 0
  /\ lastTx = -1
  /\ intime = FALSE
  /\ cksumdrop = FALSE
  /\ NoCall

(***************************************************************************)
(* sendquery                                                               *)
(***************************************************************************)
\* requests of the dispatcher, <<operation code, payload length>>: CLSFIL
\* and LOCKFIL with CX = 129, that is (129 << 3) + 4 bytes of payload
Requests ==
  {<<AL_CLSFIL, 2>>, <<AL_LOCKFIL, 1036>>}

\* the payload the caller has put at glob_pktdrv_sndbuff + 60
Payload(plen) == IF plen = 2 THEN <<52, 18>> ELSE <<>>

\* if (glob_pktdrv_sndbuff[56] & 128)
CksumEnabled == glob_pktdrv_sndbuff.b56 >= CksumFlag

\* if (bufflen > sizeof(glob_pktdrv_sndbuff)) return(0);
QueryTooLong(len) == len > SndBuffSize

\* line 307: the bytes bsdsum(glob_pktdrv_sndbuff + 56, bufflen - 56) runs
\* over, as they are in the buffer when line 307 is reached
QueryBytesBeforeSeq(b56, s, d, q, pay) == <<b56, (s + 255) % 256, d, q>> \o pay

QueryBytes(b56, s, d, q, pay) == <<b56, s, d, q>> \o pay

\* lines 289..317: resolve the drive, bufflen += 60, length check, seq++,
\* fill in the header, checksum, mark the receive buffer empty
SendqueryEntry(query, drive, plen, upd) ==
  LET len == (plen + 60) % 65536
      hdr == QueryBytes(glob_pktdrv_sndbuff.b56, IncByte(seq), ldrv[drive],
                        query, Payload(plen))
  IN
  /\ bufflen' = len
  /\ updatermac' = upd
  /\ ntrans' = ntrans + 1
  /\ txcount' = 0
  /\ cksumdrop' = FALSE
  /\ IF QueryTooLong(len)
       THEN /\ result' = 0
            /\ pc' = "done"
            /\ UNCHANGED <<seq, count, glob_pktdrv_sndbuff,
                           glob_pktdrv_recvbufflen, intime>>
       ELSE /\ seq' = IncByte(seq)
            /\ glob_pktdrv_sndbuff' =
                 [glob_pktdrv_sndbuff EXCEPT
                    !.len = len, !.b57 = IncByte(seq), !.b58 = ldrv[drive],
                    !.b59 = query, !.pay = Payload(plen),
                    !.cksum = IF CksumEnabled
                                THEN bsdsum(hdr)
                                ELSE @]
            /\ glob_pktdrv_recvbufflen' = 0
            /\ intime' = FALSE
            /\ count' = Attempts
            /\ pc' = "send"
            /\ UNCHANGED result
  /\ UNCHANGED <<t, glob_pktdrv_recvbuff, copying, installed, lastTx>>
  /\ UNCHANGED <<dvars, svars>>

\* main(), auto-discovery: the peer address is broadcast and one DISKSPACE
\* query on the first mapped drive is sent with the learn flag set
Discover ==
  /\ pc = "idle"
  /\ ~installed
  /\ startup = "discover"
  /\ args_auto
  /\ GLOB_RMAC' = BroadcastMac
  /\ SendqueryEntry(AL_DISKSPACE, FirstMapped(0), 0, 1)
  /\ UNCHANGED rtc

\* main() after the discovery query: go resident if it returned 6 bytes,
\* otherwise release the packet driver and quit
DiscoverDoneAnyway ==
  /\ pc = "done"
  /\ ~installed
  /\ drive_cds' = MarkDrives(drive_cds, glob_data_ldrv)
  /\ installed' = TRUE
  /\ pc' = "idle"
  /\ startup' = "resident"
  /\ UNCHANGED <<pktdrv_open, exitstatus>>
  /\ UNCHANGED <<seq, count, t, bufflen, updatermac, result, rtc,
                 glob_pktdrv_recvbufflen, glob_pktdrv_recvbuff,
                 glob_pktdrv_sndbuff, GLOB_RMAC, copying, ntrans, txcount,
                 lastTx, intime, cksumdrop, args_auto, argv, glob_data_ldrv,
                 gotmac>>
  /\ UNCHANGED dvars

DiscoverDone ==
  /\ pc = "done"
  /\ ~installed
  /\ IF result = 6
       THEN /\ drive_cds' = MarkDrives(drive_cds, glob_data_ldrv)
            /\ installed' = TRUE
            /\ pc' = "idle"
            /\ startup' = "resident"
            /\ UNCHANGED <<pktdrv_open, exitstatus>>
       ELSE /\ pktdrv_open' = FALSE
            /\ exitstatus' = 1
            /\ pc' = "exit"
            /\ startup' = "exit"
            /\ UNCHANGED <<drive_cds, installed>>
  /\ UNCHANGED <<seq, count, t, bufflen, updatermac, result, rtc,
                 glob_pktdrv_recvbufflen, glob_pktdrv_recvbuff,
                 glob_pktdrv_sndbuff, GLOB_RMAC, copying, ntrans, txcount,
                 lastTx, intime, cksumdrop, args_auto, argv, glob_data_ldrv,
                 gotmac>>
  /\ UNCHANGED dvars

\* process2f(): a forwarded operation calls sendquery with the learn flag 0.
\* Any time may have passed since the previous operation: the tick counter
\* has one of the start values again.
Request ==
  /\ pc \in {"idle", "done"}
  /\ installed
  /\ ntrans < MaxTrans
  /\ rtc' \in RtcStart
  /\ \E r \in Requests : SendqueryEntry(r[1], glob_reqdrv, r[2], 0)
  /\ UNCHANGED GLOB_RMAC

\* lines 318..346: hand the frame to the packet driver, then t = *rtc
Transmit ==
  /\ pc = "send"
  /\ txcount' = txcount + 1
  /\ lastTx' = glob_pktdrv_sndbuff.b57
  /\ t' = rtc
  /\ pc' = "poll"
  /\ cksumdrop' = FALSE
  /\ UNCHANGED <<seq, count, bufflen, updatermac, result, rtc,
                 glob_pktdrv_recvbufflen, glob_pktdrv_recvbuff,
                 glob_pktdrv_sndbuff, GLOB_RMAC, copying, installed, ntrans,
                 intime>>
  /\ UNCHANGED <<dvars, svars>>

\* line 349: (t != *rtc) && (t+1 != *rtc) && (*rtc != 0); t+1 is an int, so
\* it is 256 when t is 255.  The three reads of *rtc are taken as one read:
\* a verdict reached with ticks between the reads is also reached by a
\* single read at the time of the last of them.
TimedOut(t0, now) == (t0 # now) /\ (t0 + 1 # now) /\ (now # 0)

\* line 349 and, on timeout, the end of the attempt (count--, line 318) and
\* the return of 0xFFFF after the last one (line 395)
PollTimer ==
  /\ pc = "poll"
  /\ IF TimedOut(t, rtc)
       THEN /\ count' = count - 1
            /\ IF count - 1 # 0
                 THEN pc' = "send" /\ UNCHANGED result
                 ELSE pc' = "done" /\ result' = TimeoutResult
       ELSE /\ pc' = "look"
            /\ UNCHANGED <<count, result>>
  /\ UNCHANGED <<seq, t, bufflen, updatermac, rtc, glob_pktdrv_recvbufflen,
                 glob_pktdrv_recvbuff, glob_pktdrv_sndbuff, GLOB_RMAC,
                 copying, installed, ntrans, txcount, lastTx, intime,
                 cksumdrop>>
  /\ UNCHANGED <<dvars, svars>>

\* line 350: if (glob_pktdrv_recvbufflen < 1) continue;
PollLength ==
  /\ pc = "look"
  /\ pc' = IF glob_pktdrv_recvbufflen < 1 THEN "poll" ELSE "validate"
  /\ UNCHANGED <<seq, count, t, bufflen, updatermac, result, rtc,
                 glob_pktdrv_recvbufflen, glob_pktdrv_recvbuff,
                 glob_pktdrv_sndbuff, GLOB_RMAC, copying, installed, ntrans,
                 txcount, lastTx, intime, cksumdrop>>
  /\ UNCHANGED <<dvars, svars>>

\* lines 353..370: the checks on length, addresses, ethertype, sequence and
\* length field that send a frame to ignoreframe
HeaderOkNoSeq(f, flen, upd, rmac, s) ==
  /\ ~(flen < 60)
  /\ \A i \in 1..6 :
       /\ f.dmac[i] = GLOB_LMAC[i]
       /\ ~((upd = 0) /\ (f.smac[i] # rmac[i]))
  /\ ~(Word16(f.etype[1], f.etype[2]) # 62957)
  /\ ~(f.lenfld > flen)
  /\ ~(f.lenfld < 60)

HeaderOkNoDst(f, flen, upd, rmac, s) ==
  /\ ~(flen < 60)
  /\ \A i \in 1..6 : ~((upd = 0) /\ (f.smac[i] # rmac[i]))
  /\ ~((Word16(f.etype[1], f.etype[2]) # 62957) \/ (f.tail[2] # s))
  /\ ~(f.lenfld > flen)
  /\ ~(f.lenfld < 60)

HeaderOkNoLenLow(f, flen, upd, rmac, s) ==
  /\ ~(flen < 60)
  /\ \A i \in 1..6 :
       /\ f.dmac[i] = GLOB_LMAC[i]
       /\ ~((upd = 0) /\ (f.smac[i] # rmac[i]))
  /\ ~((Word16(f.etype[1], f.etype[2]) # 62957) \/ (f.tail[2] # s))
  /\ ~(f.lenfld > flen)

HeaderOkSrcAlways(f, flen, upd, rmac, s) ==
  /\ ~(flen < 60)
  /\ \A i \in 1..6 :
       /\ f.dmac[i] = GLOB_LMAC[i]
       /\ ~(f.smac[i] # rmac[i])
  /\ ~((Word16(f.etype[1], f.etype[2]) # 62957) \/ (f.tail[2] # s))
  /\ ~(f.lenfld > flen)
  /\ ~(f.lenfld < 60)

HeaderOk(f, flen, upd, rmac, s) ==
  /\ ~(flen < 60)
  /\ \A i \in 1..6 :
       /\ f.dmac[i] = GLOB_LMAC[i]
       /\ ~((upd = 0) /\ (f.smac[i] # rmac[i]))
  /\ ~((Word16(f.etype[1], f.etype[2]) # 62957) \/ (f.tail[2] # s))
  /\ ~(f.lenfld > flen)
  /\ ~(f.lenfld < 60)

\* lines 353..371 and 392: a frame that passes has its length field stored
\* in the length word, any other frame is dropped
ValidateHeader ==
  /\ pc = "validate"
  /\ IF HeaderOk(glob_pktdrv_recvbuff, glob_pktdrv_recvbufflen, updatermac,
                 GLOB_RMAC, seq)
       THEN /\ glob_pktdrv_recvbufflen' = glob_pktdrv_recvbuff.lenfld
            /\ pc' = "cksum"
            /\ UNCHANGED intime
       ELSE /\ glob_pktdrv_recvbufflen' = 0
            /\ pc' = "poll"
            /\ intime' = FALSE
  /\ UNCHANGED <<seq, count, t, bufflen, updatermac, result, rtc,
                 glob_pktdrv_recvbuff, glob_pktdrv_sndbuff, GLOB_RMAC,
                 copying, installed, ntrans, txcount, lastTx, cksumdrop>>
  /\ UNCHANGED <<dvars, svars>>

\* line 376: bsdsum(recvbuff + 56, recvbufflen - 56) != word at offset 54
CksumBad(f, flen) == bsdsum(SubSeq(f.tail, 1, flen - 56)) # f.cksum

\* lines 374..392: checksum test, then return the reply (learning the peer
\* address when asked to) or drop the frame
ValidateCksum ==
  /\ pc = "cksum"
  /\ IF CksumEnabled /\ CksumBad(glob_pktdrv_recvbuff, glob_pktdrv_recvbufflen)
       THEN /\ glob_pktdrv_recvbufflen' = 0
            /\ pc' = "poll"
            /\ intime' = FALSE
            /\ cksumdrop' = TRUE
            /\ UNCHANGED <<GLOB_RMAC, result>>
       ELSE /\ GLOB_RMAC' = IF updatermac # 0
                              THEN glob_pktdrv_recvbuff.smac
                              ELSE GLOB_RMAC
            /\ result' = glob_pktdrv_recvbufflen - 60
            /\ pc' = "done"
            /\ UNCHANGED <<glob_pktdrv_recvbufflen, intime, cksumdrop>>
  /\ UNCHANGED <<seq, count, t, bufflen, updatermac, rtc,
                 glob_pktdrv_recvbuff, glob_pktdrv_sndbuff, copying,
                 installed, ntrans, txcount, lastTx>>
  /\ UNCHANGED <<dvars, svars>>

(***************************************************************************)
(* pktdrv_recv, the link driver and the timer                              *)
(***************************************************************************)
\* first call, lines 128..132: ja / jg lead to nobufferavail
NoBufferAvailSizeOnly(cx, rlen) == cx > FRAMESIZE

NoBufferAvail(cx, rlen) == (cx > FRAMESIZE) \/ (rlen > 0)

\* lines 139..140: mov glob_pktdrv_recvbufflen, cx / neg (16-bit negation)
ReserveNoNeg(cx) == cx

Reserve(cx) == 0 - cx

\* line 155: neg glob_pktdrv_recvbufflen
CompleteMarksDelivered(rlen) == IF rlen < 0 THEN 0 - rlen ELSE 1

Complete(rlen) == 0 - rlen

\* first call (AX = 0) for a frame of f.len bytes: either the buffer is
\* handed out and the length word becomes -CX, or ES:DI = 0:0 and the driver
\* drops the frame.  The driver copies the frame into a buffer it was given.
PktdrvRecvFirst ==
  /\ pc # "exit"
  /\ ~copying
  /\ \E k \in FrameKinds :
       LET f == Frame(k, seq) IN
       IF NoBufferAvail(f.len, glob_pktdrv_recvbufflen)
         THEN UNCHANGED <<glob_pktdrv_recvbufflen, glob_pktdrv_recvbuff,
                          copying, intime>>
         ELSE /\ glob_pktdrv_recvbufflen' = Reserve(f.len)
              /\ glob_pktdrv_recvbuff' = f
              /\ copying' = TRUE
              /\ intime' = FALSE
  /\ UNCHANGED fgvars
  /\ UNCHANGED rtc

\* second call (AX # 0): neg glob_pktdrv_recvbufflen
PktdrvRecvSecond ==
  /\ pc # "exit"
  /\ copying
  /\ copying' = FALSE
  /\ glob_pktdrv_recvbufflen' = Complete(glob_pktdrv_recvbufflen)
  /\ intime' = (Waiting /\ glob_pktdrv_recvbufflen < 0
                             /\ Advance < WindowTicks)
  /\ UNCHANGED glob_pktdrv_recvbuff
  /\ UNCHANGED fgvars
  /\ UNCHANGED rtc

\* The link driver gives up a copy (receive error) and never makes the
\* second call for that frame.  The upcall cannot tell: nothing obliges the
\* driver to complete a copy it asked a buffer for.
DriverAbort ==
  /\ pc # "exit"
  /\ copying
  /\ copying' = FALSE
  /\ UNCHANGED <<glob_pktdrv_recvbufflen, glob_pktdrv_recvbuff, intime, rtc>>
  /\ UNCHANGED fgvars

\* the timer interrupt increments the counter at 0x46C; it is followed up
\* to MaxAdvance ticks past t, and one tick further when that leaves the
\* counter at 0, the value line 349 never takes for a timeout
Tick ==
  /\ Waiting
  /\ Advance < MaxAdvance \/ rtc = 0
  /\ rtc' = (rtc + 1) % 256
  /\ UNCHANGED <<glob_pktdrv_recvbufflen, glob_pktdrv_recvbuff, copying,
                 intime>>
  /\ UNCHANGED fgvars

Next ==
  \/ Discover
  \/ DiscoverDone
  \/ Request
  \/ Transmit
  \/ PollTimer
  \/ PollLength
  \/ ValidateHeader
  \/ ValidateCksum
  \/ PktdrvRecvFirst
  \/ PktdrvRecvSecond
  \/ DriverAbort
  \/ Tick

Spec == Init /\ [][Next]_vars

TypeOK ==
  /\ pc \in {"idle", "send", "poll", "look", "validate", "cksum", "done", "exit"}
  /\ seq \in 0..255
  /\ rtc \in 0..255
  /\ count \in 0..Attempts
  /\ txcount \in 0..Attempts

(***************************************************************************)
(* process2f, the INT 2F dispatcher.  A request runs from its entry to the *)
(* first call of sendquery, and from the return of a sendquery call to the *)
(* next call or to the end of process2f.  c is the memory process2f works  *)
(* on: the caller's registers, the SFT entry, the swappable data area, the *)
(* data area and the locals.                                               *)
(***************************************************************************)
\* SUCCESSFLAG and FAILFLAG(x)
Success(r) == [r EXCEPT !.ax = 0, !.cf = 0]

Fail(r, x) == [r EXCEPT !.ax = x, !.cf = 1]

FailC(c, x) == [c EXCEPT !.regs = Fail(@, x)]

\* process2f ends (break out of the switch)
Return(c) == [go |-> "ret", c |-> c, q |-> NoQuery]

\* process2f calls sendquery(op, glob_reqdrv, plen, &answer, &ax, 0) with
\* the payload pay at glob_pktdrv_sndbuff + 60; op is an unsigned char and
\* plen an unsigned short; line 290: drive = glob_data.ldrv[drive] is what
\* goes into byte 58 of the frame
CallSendqueryLocalDrive(c, op, plen, pay) ==
  [go |-> "wait", c |-> c,
   q |-> [op |-> op % 256, drive |-> c.loc.reqdrv,
          plen |-> plen % 65536, pay |-> pay]]

CallSendquery(c, op, plen, pay) ==
  [go |-> "wait", c |-> c,
   q |-> [op |-> op % 256, drive |-> ldrv[c.loc.reqdrv],
          plen |-> plen % 65536, pay |-> pay]]

\* ((unsigned short *)answer)[k] and ((unsigned long *)answer)[k]
Word(ans, k) == ans[2 * k + 1] + 256 * ans[2 * k + 2]

DWord(ans, k) == Word(ans, 2 * k) + 65536 * Word(ans, 2 * k + 1)

\* lines 435..437: fn1 runs out before it differs from the current directory
IsCurrentDirNever(fn1, cds) == FALSE

IsCurrentDir(fn1, cds) ==
  \A i \in 0..(Len(fn1) - 1) : CharAt(fn1, i) = CharAt(cds, i)

\* lines 442..453, MKDIR and the RMDIR that goes on as MKDIR
MinPathLenThree == 2 + 1

MinPathLen == 2

StartMkdir(c, al) ==
  LET i == mystrlen(c.sda.fn1) IN
  IF i < MinPathLen THEN Return(FailC(c, 3))
  ELSE CallSendquery(c, al, i - 2, SkipDrive(c.sda.fn1))

\* lines 434..440
StartRmdir(c) ==
  IF IsCurrentDir(c.sda.fn1, c.sda.drive_cdsptr) THEN Return(FailC(c, 16))
  ELSE StartMkdir(c, AL_RMDIR)

\* lines 467..476
StartChdir(c) ==
  LET i == mystrlen(c.sda.fn1) IN
  IF i < MinPathLen THEN Return(FailC(c, 3))
  ELSE CallSendquery(c, AL_CHDIR, i - 2, SkipDrive(c.sda.fn1))

\* line 490: if (sftptr->handle_count > 0) sftptr->handle_count--;
DecHandleWrap(h) == (h - 1) % 65536

DecHandle(h) == IF h > 0 THEN h - 1 ELSE h

\* lines 489..492
StartClsfil(c) ==
  LET c1 == [c EXCEPT !.sft.handle_count = DecHandle(@)] IN
  CallSendquery(c1, AL_CLSFIL, 2, <<c1.sft.start_sector>>)

\* the maximum payload of a READFIL reply and of a WRITEFIL request
ReadChunkMaxAsWrite == FRAMESIZE - 66

ReadChunkMax == FRAMESIZE - 60

WriteChunkMax == FRAMESIZE - 66

\* lines 515..526: one chunk of a READFIL, query OOOOSSLL.  file_pos is an
\* unsigned long; the positions used here stay far below 2^32, so the sums
\* on it are written without the reduction.
ReadChunk(c) ==
  LET left == (c.regs.cx - c.loc.totreadlen) % 65536
      chunklen == IF left < ReadChunkMax THEN left ELSE ReadChunkMax
  IN CallSendquery([c EXCEPT !.loc.chunklen = chunklen], AL_READFIL, 8,
                   <<c.sft.file_pos + c.loc.totreadlen,
                     c.sft.start_sector, chunklen>>)

\* line 512: if (glob_intregs.x.cx == 0) break;
NothingToReadNever(cx) == FALSE

NothingToRead(cx) == cx = 0

\* lines 506..513
StartReadfil(c) ==
  IF c.sft.open_mode % 2 = 1 THEN Return(FailC(c, 5))
  ELSE IF NothingToRead(c.regs.cx) THEN Return(c)
  ELSE ReadChunk([c EXCEPT !.loc.totreadlen = 0])

\* lines 562..569: one chunk of a WRITEFIL, query OOOOSS and the bytes
WriteChunk(c) ==
  LET chunklen == IF c.loc.bytesleft > WriteChunkMax
                    THEN WriteChunkMax ELSE c.loc.bytesleft
  IN CallSendquery([c EXCEPT !.loc.chunklen = chunklen], AL_WRITEFIL,
                   chunklen + 6,
                   <<c.sft.file_pos, c.sft.start_sector, c.loc.written,
                     chunklen>>)

\* lines 551..560
StartWritefilSkipEmpty(c) ==
  IF c.sft.open_mode % 4 = 0 THEN Return(FailC(c, 5))
  ELSE IF c.regs.cx = 0 THEN Return(c)
  ELSE WriteChunk([c EXCEPT !.loc.written = 0,
                            !.loc.bytesleft = c.regs.cx])

StartWritefil(c) ==
  IF c.sft.open_mode % 4 = 0 THEN Return(FailC(c, 5))
  ELSE WriteChunk([c EXCEPT !.loc.written = 0,
                            !.loc.bytesleft = c.regs.cx])

\* lines 590..596: BL is the low byte of BX
StartLockfil(c) ==
  LET bl == c.regs.bx % 256
      c1 == IF bl > 1 THEN FailC(c, 2) ELSE c
  IN CallSendquery(c1, AL_LOCKFIL + bl, ((c.regs.cx * 8) % 65536) + 4,
                   <<c.regs.cx, c.sft.start_sector>>)

\* lines 619..629
StartSetattr(c) ==
  LET i == mystrlen(c.sda.fn1) IN
  IF i < MinPathLen THEN Return(FailC(c, 2))
  ELSE CallSendquery(c, AL_SETATTR, i - 1,
                     <<glob_reqstkword % 256>> \o SkipDrive(c.sda.fn1))

\* lines 640..647
StartGetattr(c) ==
  LET i == mystrlen(c.sda.fn1) IN
  IF i < MinPathLen THEN Return(FailC(c, 2))
  ELSE CallSendquery(c, AL_GETATTR, i - 2, SkipDrive(c.sda.fn1))

\* lines 670..691
StartRename(c) ==
  LET i == mystrlen(c.sda.fn1)
      j == len_if_no_wildcards(c.sda.fn2)
  IN
  IF CharAt(c.sda.fn1, 0) # CharAt(c.sda.fn2, 0) THEN Return(FailC(c, 2))
  ELSE IF i < MinPathLen THEN Return(FailC(c, 2))
  ELSE IF j < MinPathLen THEN Return(FailC(c, 3))
  ELSE CallSendquery(c, AL_RENAME, 1 + (i - 2) + (j - 2),
                     <<i - 2>> \o SkipDrive(c.sda.fn1)
                               \o SkipDrive(c.sda.fn2))

\* lines 703..711
StartDelete(c) ==
  LET i == mystrlen(c.sda.fn1) IN
  IF i < MinPathLen THEN Return(FailC(c, 2))
  ELSE CallSendquery(c, AL_DELETE, i - 2, SkipDrive(c.sda.fn1))

\* lines 725..736, OPEN, CREATE and SPOPNFIL
StartOpen(c, al) ==
  LET i == len_if_no_wildcards(c.sda.fn1) IN
  IF i < MinPathLen THEN Return(FailC(c, 3))
  ELSE CallSendquery(c, al, (i - 2) + 6,
                     <<glob_reqstkword, c.sda.spop_act, c.sda.spop_mode>>
                       \o SkipDrive(c.sda.fn1))

\* lines 797..804: fn1 is copied from its third character on, whatever its
\* length
StartFindfirst(c) ==
  CallSendquery(c, AL_FINDFIRST, mystrlen(c.sda.fn1) - 1,
                <<c.sda.srch_attr>> \o SkipDrive(c.sda.fn1))

\* lines 805..813
StartFindnextSwapped(c) ==
  CallSendquery(c, AL_FINDNEXT, 16,
                <<c.dta.dir_entry, c.dta.par_clstr, c.dta.srch_attr,
                  c.dta.srch_tmpl>>)

StartFindnext(c) ==
  CallSendquery(c, AL_FINDNEXT, 16,
                <<c.dta.par_clstr, c.dta.dir_entry, c.dta.srch_attr,
                  c.dta.srch_tmpl>>)

\* lines 874..879
StartSkfmend(c) ==
  CallSendquery(c, AL_SKFMEND, 6,
                <<c.regs.dx, c.regs.cx, c.sft.start_sector>>)

\* lines 425..433 and the cases of the switch up to their sendquery call
StartOp(al, c0) ==
  LET c == [c0 EXCEPT !.regs = Success(@)] IN
  CASE al = AL_RMDIR -> StartRmdir(c)
    [] al = AL_MKDIR -> StartMkdir(c, AL_MKDIR)
    [] al = AL_CHDIR -> StartChdir(c)
    [] al = AL_CLSFIL -> StartClsfil(c)
    [] al = AL_CMMTFIL -> Return(c)
    [] al = AL_READFIL -> StartReadfil(c)
    [] al = AL_WRITEFIL -> StartWritefil(c)
    [] al = AL_LOCKFIL -> StartLockfil(c)
    [] al = AL_UNLOCKFIL -> Return(FailC(c, 2))
    [] al = AL_DISKSPACE -> CallSendquery(c, AL_DISKSPACE, 0, <<>>)
    [] al = AL_SETATTR -> StartSetattr(c)
    [] al = AL_GETATTR -> StartGetattr(c)
    [] al = AL_RENAME -> StartRename(c)
    [] al = AL_DELETE -> StartDelete(c)
    [] al \in {AL_OPEN, AL_CREATE, AL_SPOPNFIL} -> StartOpen(c, al)
    [] al = AL_FINDFIRST -> StartFindfirst(c)
    [] al = AL_FINDNEXT -> StartFindnext(c)
    [] al = AL_SKFMEND -> StartSkfmend(c)
    [] al = AL_UNKNOWN_2D -> Return([c EXCEPT !.regs.ax = 2])
    [] OTHER -> Return(c)

\* lines 453..458 (MKDIR, RMDIR) and 476..481 (CHDIR): fb is the status
\* reported when sendquery does not return 0
ContMkdir(c, v, st, fb) ==
  IF v = 0
    THEN Return([c EXCEPT !.regs.ax = st,
                          !.regs.cf = IF st # 0 THEN 1 ELSE @])
    ELSE Return(FailC(c, fb))

\* lines 476..481 as the redirector of PHANTOM.C did it: the current
\* directory of the drive is set to fn1 when the peer answers success
ContChdirUpdatesCds(c, v, st) ==
  IF v = 0 /\ st = 0
    THEN Return([c EXCEPT !.regs.ax = 0,
                          !.sda.drive_cdsptr = c.sda.fn1])
    ELSE ContMkdir(c, v, st, 3)

\* lines 476..481
ContChdir(c, v, st) == ContMkdir(c, v, st, 3)

\* lines 492..494
ContClsfil(c, v, st) ==
  IF v = 0 /\ st # 0 THEN Return(FailC(c, st)) ELSE Return(c)

\* lines 527..541
ContReadfilPosPerChunk(c, v, st) ==
  IF v = TimeoutResult THEN Return(FailC(c, 2))
  ELSE IF st # 0 THEN Return(FailC(c, st))
  ELSE LET tot == (c.loc.totreadlen + v) % 65536
           end == c.loc.totreadlen + v
           c1 == [c EXCEPT !.dta.fill = IF end > @ THEN end ELSE @,
                           !.loc.totreadlen = tot,
                           !.sft.file_pos = @ + v]
       IN IF (v < c.loc.chunklen) \/ (tot = c.regs.cx)
            THEN Return([c1 EXCEPT !.regs.cx = tot])
            ELSE ReadChunk(c1)

ContReadfil(c, v, st) ==
  IF v = TimeoutResult THEN Return(FailC(c, 2))
  ELSE IF st # 0 THEN Return(FailC(c, st))
  ELSE LET tot == (c.loc.totreadlen + v) % 65536
           end == c.loc.totreadlen + v
           c1 == [c EXCEPT !.dta.fill = IF end > @ THEN end ELSE @,
                           !.loc.totreadlen = tot]
       IN IF (v < c.loc.chunklen) \/ (tot = c.regs.cx)
            THEN Return([c1 EXCEPT
                           !.sft.file_pos = @ + tot,
                           !.regs.cx = tot])
            ELSE ReadChunk(c1)

\* lines 570..586
\* ContWritefil without the break of line 583
ContWritefilNoBreak(c, v, st, ans) ==
  IF v = TimeoutResult THEN Return(FailC(c, 2))
  ELSE IF (st # 0) \/ (v # 2) THEN Return(FailC(c, st))
  ELSE LET len == Word(ans, 0)
           pos == c.sft.file_pos + len
           c1 == [c EXCEPT
                    !.loc.written = (@ + len) % 65536,
                    !.loc.bytesleft = (@ - len) % 65536,
                    !.regs.cx = (c.loc.written + len) % 65536,
                    !.sft.file_pos = pos,
                    !.sft.file_size = IF pos > @ THEN pos ELSE @]
       IN IF c1.loc.bytesleft > 0 THEN WriteChunk(c1)
          ELSE Return(c1)

\* ContWritefil with a zero-byte write cutting the file at the position
ContWritefilTruncates(c, v, st, ans) ==
  IF v = TimeoutResult THEN Return(FailC(c, 2))
  ELSE IF (st # 0) \/ (v # 2) THEN Return(FailC(c, st))
  ELSE LET len == Word(ans, 0)
           pos == c.sft.file_pos + len
           c1 == [c EXCEPT
                    !.loc.written = (@ + len) % 65536,
                    !.loc.bytesleft = (@ - len) % 65536,
                    !.regs.cx = (c.loc.written + len) % 65536,
                    !.sft.file_pos = pos,
                    !.sft.file_size = IF pos > @ \/ c.loc.chunklen = 0
                                        THEN pos ELSE @]
       IN IF len # c.loc.chunklen THEN Return(c1)
          ELSE IF c1.loc.bytesleft > 0 THEN WriteChunk(c1)
          ELSE Return(c1)

ContWritefil(c, v, st, ans) ==
  IF v = TimeoutResult THEN Return(FailC(c, 2))
  ELSE IF (st # 0) \/ (v # 2) THEN Return(FailC(c, st))
  ELSE LET len == Word(ans, 0)
           pos == c.sft.file_pos + len
           c1 == [c EXCEPT
                    !.loc.written = (@ + len) % 65536,
                    !.loc.bytesleft = (@ - len) % 65536,
                    !.regs.cx = (c.loc.written + len) % 65536,
                    !.sft.file_pos = pos,
                    !.sft.file_size = IF pos > @ THEN pos ELSE @]
       IN IF len # c.loc.chunklen THEN Return(c1)
          ELSE IF c1.loc.bytesleft > 0 THEN WriteChunk(c1)
          ELSE Return(c1)

\* lines 596..598
ContLockfil(c, v) == IF v # 0 THEN Return(FailC(c, 2)) ELSE Return(c)

\* lines 606..613
ContDiskspace(c, v, st, ans) ==
  IF v = 6
    THEN Return([c EXCEPT !.regs.ax = st, !.regs.bx = Word(ans, 0),
                          !.regs.cx = Word(ans, 1),
                          !.regs.dx = Word(ans, 2)])
    ELSE Return(FailC(c, 2))

\* lines 632..636 (SETATTR) and 691..695 (RENAME)
ContSetattr(c, v, st) ==
  IF v # 0 THEN Return(FailC(c, 2))
  ELSE IF st # 0 THEN Return(FailC(c, st))
  ELSE Return(c)

\* lines 648..664
ContGetattr(c, v, st, ans) ==
  IF v = TimeoutResult THEN Return(FailC(c, 2))
  ELSE IF (v # 9) \/ (st # 0) THEN Return(FailC(c, st))
  ELSE Return([c EXCEPT !.regs.cx = Word(ans, 0), !.regs.dx = Word(ans, 1),
                        !.regs.bx = Word(ans, 3), !.regs.di = Word(ans, 2),
                        !.regs.ax = ans[9]])

\* lines 712..716
ContDelete(c, v, st) ==
  IF v = TimeoutResult THEN Return(FailC(c, 2))
  ELSE IF (v # 0) \/ (st # 0) THEN Return(FailC(c, st))
  ELSE Return(c)

\* lines 762..763: open_mode &= 0xff00u; open_mode |= answer[24]
OpenModeReplaced(om, b) == b

OpenModeAfter(om, b) == (om - (om % 256)) + b

\* lines 737..768: 0x8040 | glob_reqdrv is 0x8040 + glob_reqdrv for a drive
\* number below 64
ContOpen(c, al, v, st, ans) ==
  IF v = TimeoutResult THEN Return(FailC(c, 2))
  ELSE IF (v # 25) \/ (st # 0) THEN Return(FailC(c, st))
  ELSE Return([c EXCEPT
         !.regs.cx = IF al = AL_SPOPNFIL THEN Word(ans, 11) ELSE @,
         !.sft.file_attr = ans[1],
         !.sft.dev_info_word = 32832 + c.loc.reqdrv,
         !.sft.dev_drvr_ptr = 0,
         !.sft.start_sector = Word(ans, 10),
         !.sft.file_time = DWord(ans, 3),
         !.sft.file_size = DWord(ans, 4),
         !.sft.file_pos = 0,
         !.sft.open_mode = OpenModeAfter(@, ans[25]),
         !.sft.rel_sector = 65535,
         !.sft.abs_sector = 65535,
         !.sft.dir_sector = 0,
         !.sft.dir_entry_no = 255,
         !.sft.file_name = SubSeq(ans, 2, 12)])

\* lines 815..869: the found entry is put in found_file and copied to dta +
\* 0x15, the field entry here (dta points to a struct sdbstruct, so that the
\* 32 bytes land 0x15 such structures after the block and not in it);
\* glob_reqdrv | 128 is glob_reqdrv + 128
ContFind(c, al, v, st, ans) ==
  IF v = TimeoutResult
    THEN Return(FailC(c, IF al = AL_FINDFIRST THEN 2 ELSE 18))
  ELSE IF (st # 0) \/ (v # 24) THEN Return(FailC(c, st))
  ELSE LET ff == [fname |-> SubSeq(ans, 2, 12), fattr |-> ans[1],
                  time_lstupd |-> Word(ans, 6),
                  date_lstupd |-> Word(ans, 7), start_clstr |-> 0,
                  fsize |-> DWord(ans, 4)]
           d1 == IF al = AL_FINDFIRST
                   THEN [c.dta EXCEPT !.drv_lett = c.loc.reqdrv + 128,
                                      !.srch_tmpl = c.sda.fcb_fn1,
                                      !.srch_attr = c.sda.srch_attr]
                   ELSE c.dta
       IN Return([c EXCEPT
            !.sda.found_file = ff,
            !.dta = [d1 EXCEPT !.par_clstr = Word(ans, 10),
                               !.dir_entry = Word(ans, 11),
                               !.entry = ff]])

\* lines 880..888
ContSkfmend(c, v, st, ans) ==
  IF v = TimeoutResult THEN Return(FailC(c, 2))
  ELSE IF (st # 0) \/ (v # 4) THEN Return(FailC(c, st))
  ELSE Return([c EXCEPT !.regs.ax = Word(ans, 0),
                        !.regs.dx = Word(ans, 1)])

\* the cases of the switch from the return of their sendquery call on: v is
\* the value returned, st is *ax and ans the bytes at answer
ContOp(al, c0, v, st, ans) ==
  LET c == [c0 EXCEPT !.loc.val = v, !.loc.st = st, !.loc.ans = ans] IN
  CASE al \in {AL_RMDIR, AL_MKDIR} -> ContMkdir(c, v, st, 2)
    [] al = AL_CHDIR -> ContChdir(c, v, st)
    [] al = AL_CLSFIL -> ContClsfil(c, v, st)
    [] al = AL_READFIL -> ContReadfil(c, v, st)
    [] al = AL_WRITEFIL -> ContWritefil(c, v, st, ans)
    [] al = AL_LOCKFIL -> ContLockfil(c, v)
    [] al = AL_DISKSPACE -> ContDiskspace(c, v, st, ans)
    [] al \in {AL_SETATTR, AL_RENAME} -> ContSetattr(c, v, st)
    [] al = AL_GETATTR -> ContGetattr(c, v, st, ans)
    [] al = AL_DELETE -> ContDelete(c, v, st)
    [] al \in {AL_OPEN, AL_CREATE, AL_SPOPNFIL} -> ContOpen(c, al, v, st, ans)
    [] al \in {AL_FINDFIRST, AL_FINDNEXT} -> ContFind(c, al, v, st, ans)
    [] al = AL_SKFMEND -> ContSkfmend(c, v, st, ans)
    [] OTHER -> Return(c)

(***************************************************************************)
(* Requests of DOS and answers of the peer                                 *)
(***************************************************************************)
\* the subfunctions process2f has a case for
Subfunctions ==
  {AL_RMDIR, AL_MKDIR, AL_CHDIR, AL_CLSFIL, AL_CMMTFIL, AL_READFIL,
   AL_WRITEFIL, AL_LOCKFIL, AL_UNLOCKFIL, AL_DISKSPACE, AL_SETATTR,
   AL_GETATTR, AL_RENAME, AL_DELETE, AL_OPEN, AL_CREATE, AL_FINDFIRST,
   AL_FINDNEXT, AL_SKFMEND, AL_UNKNOWN_2D, AL_SPOPNFIL}

\* subfunctions that read glob_sdaptr->fn1
PathOps ==
  {AL_RMDIR, AL_MKDIR, AL_CHDIR, AL_SETATTR, AL_GETATTR, AL_RENAME,
   AL_DELETE, AL_OPEN, AL_CREATE, AL_SPOPNFIL, AL_FINDFIRST}

\* CX of a READFIL and of a WRITEFIL request
ReadCounts == {0, 10, 1030, 2048, 2061}

WriteCounts == {0, 10, 1025}

\* a search data block as a successful FINDFIRST leaves it
DtaSearch ==
  [Dta0 EXCEPT !.drv_lett = glob_reqdrv + 128,
               !.srch_tmpl = [Blank11 EXCEPT ![1] = 65],
               !.srch_attr = 16, !.par_clstr = 17, !.dir_entry = 3]

\* open_mode of the SFT DOS hands to OPEN, CREATE and SPOPNFIL: 0002h and
\* 2142h
OpenModesIn == {2, 8514}

\* registers at the entry of the handler: AX = 11xxh, carry as DOS left it
RegsIn(al, bx, cx) ==
  [Regs0 EXCEPT !.ax = 4352 + al, !.bx = bx, !.cx = cx, !.cf = 1]

\* what DOS can hand to process2f for subfunction al.  A FINDNEXT comes
\* with a search block a FINDFIRST filled: the one of DtaSearch or the one
\* the last search left.  DOS passes fully
\* qualified names; FINDFIRST, which reads fn1 from its third character on
\* without a test, is given names of two characters or more only.  A file
\* is opened on C: or on F:, the two mapped drives; a call on an open file
\* comes with an SFT entry of C: that DOS filled, or with the entry the
\* last call left (DOS keeps the entry of a handle from call to call); a
\* READFIL can also come for a file CREATE left empty.
CallInputs(al) ==
  LET base == [regs |-> RegsIn(al, 0, 0), sft |-> Sft0, sda |-> Sda0,
               dta |-> Dta0, loc |-> Loc0]
      kept(S) == S \cup {[x EXCEPT !.sft = sft] : x \in S}
  IN
  CASE al = AL_RMDIR ->
         {[base EXCEPT !.sda.fn1 = f, !.sda.drive_cdsptr = d] :
            f \in Fn1Set, d \in CdsSet}
    [] al = AL_RENAME ->
         {[base EXCEPT !.sda.fn1 = f, !.sda.fn2 = g] :
            f \in Fn1Set, g \in Fn2Set}
    [] al = AL_FINDFIRST ->
         {[base EXCEPT !.sda.fn1 = f] : f \in {g \in Fn1Set : Len(g) >= 2}}
    [] al \in {AL_OPEN, AL_CREATE, AL_SPOPNFIL} ->
         {[base EXCEPT !.sda.fn1 = f, !.sft.open_mode = om] :
            f \in Fn1Set \cup {Fn1OnF}, om \in OpenModesIn}
    [] al \in PathOps \ {AL_RMDIR, AL_RENAME, AL_FINDFIRST} ->
         {[base EXCEPT !.sda.fn1 = f] : f \in Fn1Set}
    [] al = AL_CLSFIL ->
         kept({[base EXCEPT !.sft.handle_count = h] : h \in 0..2})
    [] al = AL_READFIL ->
         kept({[base EXCEPT !.regs.cx = n, !.sft.open_mode = m,
                            !.sft.file_pos = p] :
                 n \in ReadCounts, m \in 0..2, p \in {0, 100}})
         \cup {[base EXCEPT !.regs.cx = n, !.sft.file_size = 0] :
                 n \in ReadCounts}
    [] al = AL_WRITEFIL ->
         kept({[base EXCEPT !.regs.cx = n, !.sft.open_mode = m] :
                 n \in WriteCounts, m \in 0..2})
    [] al = AL_LOCKFIL ->
         kept({[base EXCEPT !.regs.bx = b, !.regs.cx = n] :
                 b \in 0..2, n \in {1, 129}})
    [] al = AL_FINDNEXT ->
         {[base EXCEPT !.dta = d] :
            d \in {DtaSearch} \cup {b \in {dta} : b.drv_lett >= 128}}
    [] al = AL_SKFMEND ->
         kept({[base EXCEPT !.regs.cx = 0, !.regs.dx = 16]})
    [] OTHER -> {base}

\* status words of the peer: success and "access denied"
Statuses == {0, 5}

\* payload lengths of the replies to the requests that carry no file data
ReplyLenSet == {0, 1, 4, 6, 9, 24, 25}

\* the n bytes of a reply payload
AnswerBytes(n) == [i \in 1..n |-> (3 * i + 1) % 128]

\* a 16-bit count as the two bytes of a WRITEFIL reply
CountBytes(n) == <<n % 256, n \div 256>>

\* the replies sendquery can accept for the pending call: value returned
\* (payload length), *ax and the payload.  A READFIL reply is as long as
\* asked, one byte shorter, or a full frame; a WRITEFIL reply counts as many
\* bytes as sent, one less, one more, or the largest 16-bit count.
Replies(al, c) ==
  CASE al = AL_READFIL ->
         {[v |-> n, st |-> s, ans |-> <<>>] :
            n \in {c.loc.chunklen, c.loc.chunklen - 1, ReadChunkMax},
            s \in Statuses}
    [] al = AL_WRITEFIL ->
         {[v |-> 2, st |-> s, ans |-> CountBytes(n)] :
            n \in {c.loc.chunklen, c.loc.chunklen + 1, 65535} \cup
                  {k \in {c.loc.chunklen - 1} : k >= 0},
            s \in Statuses}
         \cup {[v |-> 0, st |-> s, ans |-> <<>>] : s \in Statuses}
    [] OTHER ->
         {[v |-> n, st |-> s, ans |-> AnswerBytes(n)] :
            n \in ReplyLenSet, s \in Statuses}

(***************************************************************************)
(* The INT 2F hook                                                         *)
(***************************************************************************)
\* the multiplex id findfreemultiplex() found at installation
glob_multiplexid == 192

\* the segment and the offset of glob_data, returned by the private call
DataSeg == 4096

GlobDataOff == 64

\* the subfunctions with an entry other than AL_UNKNOWN in the table
\* supportedfunctions; entry 0 is AL_INSTALLCHK
supportedfunctions == Subfunctions \cup {0}

\* DRIVETONUM(x)
DRIVETONUM(x) == IF x >= 97 /\ x <= 122 THEN x - 97 ELSE x - 65

\* a value stored in glob_reqdrv
AsDriveByte(x) == x % 256

\* lines 1001..1027: the drive the request is about.  The search block of
\* FINDNEXT (glob_sdaptr->sdb) and the CDS at ES:DI are the block and the
\* current-directory structure DOS handed over with the request.
ReqDrv(al, c) ==
  IF (al >= AL_CLSFIL /\ al <= AL_UNLOCKFIL) \/ al = AL_SKFMEND
       \/ al = AL_UNKNOWN_2D
    THEN c.sft.dev_info_word % 64
  ELSE IF al = AL_FINDNEXT THEN c.dta.drv_lett % 32
  ELSE IF al \in {AL_SETATTR, AL_GETATTR, AL_DELETE, AL_OPEN, AL_CREATE,
                  AL_SPOPNFIL, AL_MKDIR, AL_RMDIR, AL_CHDIR, AL_RENAME}
    THEN AsDriveByte(DRIVETONUM(CharAt(c.sda.fn1, 0)))
  ELSE AsDriveByte(DRIVETONUM(CharAt(c.sda.drive_cdsptr, 0)))

\* line 1029 with the tests reversed: the drive is one of ldrv
DriveMappedAny(d) == d <= 25

DriveMapped(d) == d <= 25 /\ ldrv[d] # 255

\* lines 961..977: the private multiplex calls
IsInstallCheck(r) ==
  r.ax \div 256 = glob_multiplexid /\ r.ax % 256 = 0

IsGetDataPtr(r) ==
  r.ax \div 256 = glob_multiplexid /\ r.ax % 256 = 1 /\ r.cx = 19846

\* line 983: a redirector call with a subfunction of the table
IsRedirectorCall(r) ==
  /\ r.ax \div 256 = 17
  /\ r.ax % 256 # 0
  /\ r.ax % 256 <= 46
  /\ r.ax % 256 \in supportedfunctions

\* lines 983 and 1029: the request goes on to process2f
ForUs(c) ==
  /\ ~IsInstallCheck(c.regs)
  /\ ~IsGetDataPtr(c.regs)
  /\ IsRedirectorCall(c.regs)
  /\ DriveMapped(ReqDrv(c.regs.ax % 256, c))

\* lines 1040..1043: the index after the last backslash of s (0 if none)
RECURSIVE AfterLastBackslash(_, _)
AfterLastBackslash(s, i) ==
  IF i = 0 THEN 0
  ELSE IF s[i] = 92 THEN i
  ELSE AfterLastBackslash(s, i - 1)

\* lines 1049..1057: name is copied from its k-th character to an area of
\* blanks, a dot moves on to the ninth place.  DOS hands over names of at
\* most eight characters and three more, the area is not overrun.
RECURSIVE FcbCopy(_, _, _, _)
FcbCopy(name, k, i, fcb) ==
  IF k > Len(name) THEN fcb
  ELSE IF name[k] = 46 THEN FcbCopy(name, k + 1, 8, fcb)
  ELSE FcbCopy(name, k + 1, i + 1, [fcb EXCEPT ![i + 1] = name[k]])

\* lines 1035..1060: fcb_fn1 is made from fn1, except for DISKSPACE
NormaliseFcb(al, c) ==
  IF al = AL_DISKSPACE THEN c
  ELSE LET s == c.sda.fn1
           name == SubSeq(s, AfterLastBackslash(s, Len(s)) + 1, Len(s))
       IN [c EXCEPT !.sda.fcb_fn1 = FcbCopy(name, 1, 0, Blank11)]

\* fn1 on a drive that is not mapped (D:) and on no drive at all ('[' is
\* the 27th letter)
Fn1Elsewhere == {<<68, 58, 92, 65>>, <<91, 58, 92, 65>>}

\* requests inthandler does not pass to process2f: another multiplex
\* number (AH = 12h), subfunctions outside the table (00h, 02h, 2Fh), files,
\* paths, search blocks and current directories of other drives, and the
\* private calls
OtherInputs ==
  LET base == [regs |-> RegsIn(AL_MKDIR, 0, 0), sft |-> Sft0, sda |-> Sda0,
               dta |-> Dta0, loc |-> Loc0]
  IN
  {[base EXCEPT !.regs.ax = x] : x \in {4608 + AL_MKDIR, 4352, 4354, 4399}}
  \cup {[base EXCEPT !.regs.ax = 4352 + al, !.sda.fn1 = f] :
          al \in {AL_MKDIR, AL_OPEN}, f \in Fn1Elsewhere}
  \cup {[base EXCEPT !.regs.ax = 4352 + al, !.regs.cx = 10,
                     !.sft.dev_info_word = 32832 + d] :
          al \in {AL_READFIL, AL_CLSFIL}, d \in {3, 63}}
  \cup {[base EXCEPT !.regs.ax = 4352 + AL_FINDNEXT,
                     !.dta = [DtaSearch EXCEPT !.drv_lett = 128 + 3]]}
  \cup {[base EXCEPT !.regs.ax = 4352 + al,
                     !.sda.drive_cdsptr = <<68, 58, 92, 65>>] :
          al \in {AL_DISKSPACE, AL_FINDFIRST}}
  \cup {[base EXCEPT !.regs.ax = 256 * glob_multiplexid + a, !.regs.cx = x] :
          a \in {0, 1}, x \in {0, 19846}}

(***************************************************************************)
(* Actions of the dispatcher                                               *)
(***************************************************************************)
\* the variables of the transaction engine the dispatcher steps leave alone
tvars ==
  <<pc, count, t, bufflen, updatermac, result, rtc, glob_pktdrv_recvbufflen,
    glob_pktdrv_recvbuff, glob_pktdrv_sndbuff, GLOB_RMAC, copying,
    installed, ntrans, txcount, lastTx, intime, cksumdrop, svars>>

Cur ==
  [regs |-> glob_intregs, sft |-> sft, sda |-> glob_sdaptr, dta |-> dta,
   loc |-> loc]

Apply(plan) ==
  /\ p2f' = plan.go
  /\ glob_intregs' = plan.c.regs
  /\ sft' = plan.c.sft
  /\ glob_sdaptr' = plan.c.sda
  /\ dta' = plan.c.dta
  /\ loc' = plan.c.loc
  /\ pending' = plan.q

\* DOS issues an INT 2F request for a mapped drive: the registers, the SFT
\* entry, the swappable data area and the data area are what DOS made them
\* the request c is an OPEN, or a READFIL or WRITEFIL on the SFT entry the
\* request before left, the first one on an entry as an open leaves it
\* (position 0)
SameFile(c) ==
  \/ c.regs.ax = 4352 + AL_OPEN
  \/ /\ c.regs.ax \in {4352 + AL_READFIL, 4352 + AL_WRITEFIL}
     /\ IF ncalls = 0 THEN c.sft.file_pos = 0 ELSE c.sft = sft

\* the reply r to the pending READFIL or WRITEFIL carries, or counts, no
\* more bytes than the request asked for, or sent
HonestReply(r) ==
  /\ subfunction = AL_READFIL => r.v <= loc.chunklen
  /\ (subfunction = AL_WRITEFIL /\ r.v = 2) => Word(r.ans, 0) <= loc.chunklen

Int2f ==
  /\ p2f \in {"ret", "iret", "chain"}
  /\ ncalls < MaxCalls
  /\ \E c \in (UNION {CallInputs(al) : al \in Subfunctions}) \cup OtherInputs :
       /\ Apply([go |-> "entry", c |-> c, q |-> NoQuery])
       /\ onesft' = (onesft /\ SameFile(c))
  /\ sent' = <<>>
  /\ ncalls' = ncalls + 1
  /\ UNCHANGED <<subfunction, seq, tvars>>

\* lines 961..977: inthandler answers a private multiplex call and returns
MultiplexCall ==
  /\ p2f = "entry"
  /\ \/ /\ IsInstallCheck(glob_intregs)
        /\ glob_intregs' =
             [glob_intregs EXCEPT !.ax = (@ - (@ % 256)) + 255,
                                  !.bx = 19846, !.cx = 2017]
     \/ /\ IsGetDataPtr(glob_intregs)
        /\ glob_intregs' =
             [glob_intregs EXCEPT !.ax = 0, !.bx = DataSeg,
                                  !.cx = GlobDataOff]
  /\ p2f' = "iret"
  /\ UNCHANGED <<subfunction, sft, glob_sdaptr, dta, loc, pending, sent,
                 ncalls, onesft, seq, tvars>>

\* lines 983, 1029 and 1089..1091: the request is not for this program and
\* goes to the previous INT 2F handler
ChainToPrevHandler ==
  /\ p2f = "entry"
  /\ ~IsInstallCheck(glob_intregs)
  /\ ~IsGetDataPtr(glob_intregs)
  /\ ~ForUs(Cur)
  /\ p2f' = "chain"
  /\ UNCHANGED <<subfunction, glob_intregs, sft, glob_sdaptr, dta, loc,
                 pending, sent, ncalls, onesft, seq, tvars>>

\* lines 1035..1077: fcb_fn1 is normalised and process2f runs from its entry
\* up to its first call of sendquery, or to its end: subfunction =
\* glob_intregs.h.al
Process2f ==
  /\ p2f = "entry"
  /\ ForUs(Cur)
  /\ subfunction' = glob_intregs.ax % 256
  /\ Apply(StartOp(glob_intregs.ax % 256,
                   NormaliseFcb(glob_intregs.ax % 256,
                                [Cur EXCEPT !.loc.reqdrv =
                                   ReqDrv(glob_intregs.ax % 256, Cur)])))
  /\ UNCHANGED <<sent, ncalls, onesft, seq, tvars>>

\* line 295: the query is too long, sendquery returns 0 at once; answer and
\* ax were not set, *ax is whatever the uninitialised pointer leads to
SendqueryTooLong ==
  /\ p2f = "wait"
  /\ QueryTooLong((pending.plen + 60) % 65536)
  /\ \E s \in Statuses : Apply(ContOp(subfunction, Cur, 0, s, <<>>))
  /\ UNCHANGED <<subfunction, sent, ncalls, onesft, seq, tvars>>

\* lines 297..395 without a reply that passes: the request was transmitted
\* and sendquery returns 0xFFFF
SendqueryTimeout ==
  /\ p2f = "wait"
  /\ ~QueryTooLong((pending.plen + 60) % 65536)
  /\ Len(sent) < MaxExch
  /\ seq' = IncByte(seq)
  /\ sent' = Append(sent, pending)
  /\ Apply(ContOp(subfunction, Cur, TimeoutResult, loc.st, <<>>))
  /\ UNCHANGED <<subfunction, ncalls, onesft, tvars>>

\* lines 297..390 with a reply that passes: sendquery returns its payload
\* length and sets answer and ax
SendqueryReply ==
  /\ p2f = "wait"
  /\ ~QueryTooLong((pending.plen + 60) % 65536)
  /\ Len(sent) < MaxExch
  /\ seq' = IncByte(seq)
  /\ sent' = Append(sent, pending)
  /\ \E r \in Replies(subfunction, Cur) :
       /\ Apply(ContOp(subfunction, Cur, r.v, r.st, r.ans))
       /\ onesft' = (onesft /\ HonestReply(r))
  /\ UNCHANGED <<subfunction, ncalls, tvars>>

NextDispatch ==
  \/ Int2f
  \/ MultiplexCall
  \/ ChainToPrevHandler
  \/ Process2f
  \/ SendqueryTooLong
  \/ SendqueryTimeout
  \/ SendqueryReply

\* the resident program with a configured peer
InitDispatch == Init /\ installed /\ CksumEnabled

SpecDispatch == InitDispatch /\ [][NextDispatch]_vars

(***************************************************************************)
(* main() from the command line to going resident (specification          *)
(* SpecStartup).  sendquery is taken by its return value here.  The tests  *)
(* of the DOS version, of the redirector install check and of the free     *)
(* multiplex number, and the allocation of the data segment, are taken to  *)
(* pass; the options /q /p /n /u are not in the command lines.             *)
(***************************************************************************)
\* what main() leaves alone before it goes resident
nsvars ==
  <<pc, seq, count, t, bufflen, updatermac, rtc, glob_pktdrv_recvbufflen,
    glob_pktdrv_recvbuff, glob_pktdrv_sndbuff, copying, txcount, lastTx,
    intime, cksumdrop, dvars>>

\* longest command line
MaxArgs == 3

\* an argument: a drive mapping "r-l" (r and l are the two letters), "::"
\* or a peer address
MapArg(r, l) == [k |-> "map", r |-> r, l |-> l]

AutoArg == [k |-> "auto", r |-> 0, l |-> 0]

MacArg == [k |-> "mac", r |-> 0, l |-> 0]

\* "D-C", "A-F", "a-c" (C: once more) and "C-[" (no drive), "::" and an
\* address
Args ==
  {MapArg(68, 67), MapArg(65, 70), MapArg(97, 99), MapArg(67, 91),
   AutoArg, MacArg}

ArgLists == UNION {[1..n -> Args] : n \in 0..MaxArgs}

\* the current-directory structures the host may have when main() starts:
\* lastdrv is E: or F:, and C: or F: may be a drive of the host
HostCds ==
  {[d \in 0..n |->
      IF d \in used
        THEN [flags |-> {"CDSFLAG_PHY"}, current_path |-> <<65 + d, 58, 92>>]
        ELSE [flags |-> {}, current_path |-> <<>>]] :
     n \in {LASTDRIVE - 1, LASTDRIVE}, used \in {{}, {2}, {5}}}

\* line 1605: for (i = 0; i < 26; i++) glob_data.ldrv[i] = 0xff;
NoDrives == [d \in 0..25 |-> 255]

InitStartup ==
  /\ pc = "idle"
  /\ count = 0
  /\ t = 0
  /\ bufflen = 0
  /\ updatermac = 0
  /\ result = 0
  /\ rtc = 255
  /\ seq = 0
  /\ glob_pktdrv_recvbufflen = 0
  /\ glob_pktdrv_recvbuff = NoFrame
  /\ glob_pktdrv_sndbuff =
       [b56 |-> PROTOVER + CksumFlag, b57 |-> 0, b58 |-> 0, b59 |-> 0,
        len |-> 0, cksum |-> 0, pay |-> <<>>]
  /\ GLOB_RMAC = UnsetMac
  /\ installed = FALSE
  /\ copying = FALSE
  /\ ntrans = 0
  /\ txcount = 0
  /\ lastTx = -1
  /\ intime = FALSE
  /\ cksumdrop = FALSE
  /\ NoCall
  /\ startup = "parse"
  /\ args_auto = FALSE
  /\ gotmac = FALSE
  /\ glob_data_ldrv = NoDrives
  /\ pktdrv_open = FALSE
  /\ exitstatus = 0 - 1
  /\ argv \in ArgLists
  /\ drive_cds \in HostCds

\* return(1)
Quit == startup' = "exit" /\ exitstatus' = 1

\* line 1383: a mapping for a local drive that has one is refused
AlreadyMapped(m, d) == m[d] # 255

\* parseargv, lines 1376..1387: a drive mapping; rdrv and ldrv are unsigned
\* chars
ParseMapping(a) ==
  LET rdrv == DRIVETONUM(a.r) % 256
      l == DRIVETONUM(a.l) % 256
  IN
  /\ IF (l > 25) \/ (rdrv > 25)
       THEN Quit /\ UNCHANGED <<glob_data_ldrv, argv>>
       ELSE IF AlreadyMapped(glob_data_ldrv, l)
              THEN Quit /\ UNCHANGED <<glob_data_ldrv, argv>>
              ELSE /\ glob_data_ldrv' = [glob_data_ldrv EXCEPT ![l] = rdrv]
                   /\ argv' = Tail(argv)
                   /\ UNCHANGED <<startup, exitstatus>>
  /\ UNCHANGED <<args_auto, gotmac, GLOB_RMAC>>

\* parseargv, lines 1425..1433: "::" or the address of the peer
ParseMac(a) ==
  /\ IF gotmac
       THEN Quit /\ UNCHANGED <<args_auto, gotmac, GLOB_RMAC, argv>>
       ELSE /\ gotmac' = TRUE
            /\ args_auto' = (a.k = "auto")
            /\ GLOB_RMAC' = IF a.k = "auto" THEN GLOB_RMAC ELSE PeerMac
            /\ argv' = Tail(argv)
            /\ UNCHANGED <<startup, exitstatus>>
  /\ UNCHANGED glob_data_ldrv

\* parseargv looks at one argument; main() quits when parseargv fails
ParseArg ==
  /\ startup = "parse"
  /\ argv # <<>>
  /\ IF Head(argv).k = "map" THEN ParseMapping(Head(argv))
                             ELSE ParseMac(Head(argv))
  /\ UNCHANGED <<drive_cds, pktdrv_open, installed, ntrans, result>>
  /\ UNCHANGED nsvars

\* parseargv, line 1442: a mapping and an address are required
ParseEnd ==
  /\ startup = "parse"
  /\ argv = <<>>
  /\ IF (\A d \in 0..25 : glob_data_ldrv[d] = 255) \/ ~gotmac
       THEN Quit
       ELSE startup' = "check" /\ UNCHANGED exitstatus
  /\ UNCHANGED <<args_auto, drive_cds, pktdrv_open, argv, glob_data_ldrv,
                 gotmac, GLOB_RMAC, installed, ntrans, result>>
  /\ UNCHANGED nsvars

\* lines 1813..1821: getcds(i) is NULL or cds->flags is not 0
DriveActiveNever(cdsf, d) == FALSE

DriveActive(cdsf, d) == d \notin DOMAIN cdsf \/ cdsf[d].flags # {}

\* main(), lines 1810..1822: every mapped drive must be free
CheckDrives ==
  /\ startup = "check"
  /\ IF \E d \in 0..25 :
          glob_data_ldrv[d] # 255 /\ DriveActive(drive_cds, d)
       THEN Quit
       ELSE startup' = "pktdrv" /\ UNCHANGED exitstatus
  /\ UNCHANGED <<args_auto, drive_cds, pktdrv_open, argv, glob_data_ldrv,
                 gotmac, GLOB_RMAC, installed, ntrans, result>>
  /\ UNCHANGED nsvars

\* main(), lines 1874..1888: a packet driver is found, or none is
PktdrvInit ==
  /\ startup = "pktdrv"
  /\ \E found \in BOOLEAN :
       IF found
         THEN /\ pktdrv_open' = TRUE
              /\ startup' = IF args_auto THEN "discover" ELSE "mark"
              /\ UNCHANGED exitstatus
         ELSE Quit /\ UNCHANGED pktdrv_open
  /\ UNCHANGED <<args_auto, drive_cds, argv, glob_data_ldrv, gotmac,
                 GLOB_RMAC, installed, ntrans, result>>
  /\ UNCHANGED nsvars

\* what the discovery call of sendquery may return: six bytes, four bytes
\* or a timeout
DiscoverResults == {6, 4, TimeoutResult}

\* main(), lines 1891..1903, the call of sendquery taken as a whole: a reply
\* leaves its source address in GLOB_RMAC
DiscoverPeer ==
  /\ startup = "discover"
  /\ ntrans' = ntrans + 1
  /\ \E res \in DiscoverResults :
       /\ result' = res
       /\ GLOB_RMAC' = IF res = TimeoutResult THEN BroadcastMac ELSE PeerMac
       /\ IF res = 6
            THEN startup' = "mark" /\ UNCHANGED <<exitstatus, pktdrv_open>>
            ELSE Quit /\ pktdrv_open' = FALSE
  /\ UNCHANGED <<args_auto, drive_cds, argv, glob_data_ldrv, gotmac,
                 installed>>
  /\ UNCHANGED nsvars

\* main(), lines 1907..1994: the mapped drives become network drives and
\* inthandler is hooked to INT 2F
GoResident ==
  /\ startup = "mark"
  /\ drive_cds' = MarkDrives(drive_cds, glob_data_ldrv)
  /\ installed' = TRUE
  /\ startup' = "resident"
  /\ UNCHANGED <<args_auto, pktdrv_open, exitstatus, argv, glob_data_ldrv,
                 gotmac, GLOB_RMAC, ntrans, result>>
  /\ UNCHANGED nsvars

NextStartup ==
  \/ ParseArg
  \/ ParseEnd
  \/ CheckDrives
  \/ PktdrvInit
  \/ DiscoverPeer
  \/ GoResident

SpecStartup == InitStartup /\ [][NextStartup]_vars

(***************************************************************************)
(* WRITEFIL over the transport (specification SpecLive): every sendquery   *)
(* call of the WRITEFIL loop is a transaction of the transport, with the   *)
(* link driver and the timer running beside it                             *)
(***************************************************************************)
\* WRITEFIL requests made in one behaviour
MaxWrites == 1

\* DOS issues a WRITEFIL on an open file of drive C:
Int2fWritefil ==
  /\ p2f = "ret"
  /\ pc = "idle"
  /\ ncalls < MaxWrites
  /\ \E c \in CallInputs(AL_WRITEFIL) :
       /\ Apply([go |-> "entry", c |-> c, q |-> NoQuery])
       /\ onesft' = (onesft /\ SameFile(c))
  /\ sent' = <<>>
  /\ ncalls' = ncalls + 1
  /\ UNCHANGED <<subfunction, seq, tvars>>

\* line 569: process2f calls sendquery, which runs up to its first SendPkt
\* (or returns 0 at line 295)
SendqueryCall ==
  /\ p2f = "wait"
  /\ pc = "idle"
  /\ rtc' \in RtcStart
  /\ SendqueryEntry(pending.op, loc.reqdrv, pending.plen, 0)
  /\ UNCHANGED GLOB_RMAC

\* lines 570..585: sendquery has returned; 0xFFFF is a timeout, any other
\* value comes with the two bytes and the status the accepted frame carried
SendqueryReturn ==
  /\ p2f = "wait"
  /\ pc = "done"
  /\ pc' = "idle"
  /\ sent' = Append(sent, pending)
  /\ IF result = TimeoutResult
       THEN /\ Apply(ContOp(subfunction, Cur, TimeoutResult, loc.st, <<>>))
            /\ UNCHANGED onesft
       ELSE \E r \in Replies(subfunction, Cur) :
              /\ Apply(ContOp(subfunction, Cur, r.v, r.st, r.ans))
              /\ onesft' = (onesft /\ HonestReply(r))
  /\ UNCHANGED <<subfunction, ncalls, seq, count, t, bufflen, updatermac,
                 result, rtc, glob_pktdrv_recvbufflen, glob_pktdrv_recvbuff,
                 glob_pktdrv_sndbuff, GLOB_RMAC, copying, installed, ntrans,
                 txcount, lastTx, intime, cksumdrop, svars>>

\* a step of the foreground: inthandler, process2f and sendquery
Foreground ==
  \/ Process2f
  \/ SendqueryCall
  \/ SendqueryReturn
  \/ Transmit
  \/ PollTimer
  \/ PollLength
  \/ ValidateHeader
  \/ ValidateCksum

NextLive ==
  \/ Int2fWritefil
  \/ Foreground
  \/ PktdrvRecvFirst
  \/ PktdrvRecvSecond
  \/ DriverAbort
  \/ Tick

\* The foreground runs whenever no interrupt handler does, and the timer
\* interrupt keeps coming; nothing is assumed of the link driver, which may
\* deliver frames for ever or never.
Fairness == WF_vars(Foreground) /\ WF_vars(Tick)

SpecLive == InitDispatch /\ [][NextLive]_vars /\ Fairness

(***************************************************************************)
(* Properties                                                              *)
(***************************************************************************)
\* the lowest local drive of the map
LowestMapped == CHOOSE d \in MappedDrives : \A e \in MappedDrives : d <= e

\* main() with auto-discovery asked for makes its call of sendquery
DiscoveryStarts == args_auto /\ ~installed /\ pc = "idle" /\ pc' # "idle"

\* main() with auto-discovery asked for is back from sendquery without a
\* six-byte answer
DiscoveryFailed ==
  args_auto /\ ~installed /\ pc = "done" /\ result # 6 /\ pc' # "done"

\* the last call of sendquery returned a reply it accepted
Accepted == pc = "done" /\ txcount > 0 /\ result # TimeoutResult

\* the receive buffer holds a delivered frame that passes every check of
\* the outstanding transaction
ValidReplyHeld ==
  /\ glob_pktdrv_recvbufflen > 0
  /\ HeaderOk(glob_pktdrv_recvbuff, glob_pktdrv_recvbufflen, updatermac,
              GLOB_RMAC, seq)
  /\ CksumEnabled =>
       ~CksumBad(glob_pktdrv_recvbuff, glob_pktdrv_recvbuff.lenfld)

C2_SeqAndSource ==
  Accepted =>
    /\ glob_pktdrv_recvbuff.tail[2] = glob_pktdrv_sndbuff.b57
    /\ glob_pktdrv_recvbuff.tail[2] = lastTx
    /\ (updatermac = 0) => (glob_pktdrv_recvbuff.smac = GLOB_RMAC)

\* a reply was accepted by a call without the learn flag
C2_Witness == Accepted /\ updatermac = 0 /\ result = 6

\* C3: an accepted reply was announced with at least 60 bytes, is addressed
\* to the local MAC, has ethertype 0xF5ED and a length field between 60 and
\* the announced length.
C3_AcceptedIsWellFormed ==
  Accepted =>
    /\ glob_pktdrv_recvbuff.len >= 60
    /\ glob_pktdrv_recvbuff.dmac = LocalMac
    /\ glob_pktdrv_recvbuff.etype = <<237, 245>>
    /\ glob_pktdrv_recvbuff.lenfld >= 60
    /\ glob_pktdrv_recvbuff.lenfld <= glob_pktdrv_recvbuff.len

\* a reply whose length field is smaller than the announced length was
\* accepted
C3_Witness ==
  Accepted /\ glob_pktdrv_recvbuff.lenfld < glob_pktdrv_recvbuff.len

\* a step of PollTimer that declares the attempt timed out
TimeoutStep == pc = "poll" /\ pc' \in {"send", "done"}

\* C4 as claimed: a reply dropped for its checksum sets the length word to 0
\* and leaves the attempt, its timer and the transmit count as they are; and
\* when a correct reply is then delivered inside the window of that first
\* attempt, the next foreground step does not give the attempt up: the
\* transmit count stays 1 and the call ends by returning that reply.
C4_AsClaimed ==
  [][ /\ (pc = "cksum" /\ pc' = "poll") =>
           /\ glob_pktdrv_recvbufflen' = 0
           /\ t' = t /\ count' = count /\ txcount' = txcount
      /\ (cksumdrop /\ txcount = 1 /\ intime /\ ValidReplyHeld /\ pc' # pc) =>
           /\ ~TimeoutStep
           /\ txcount' = 1
           /\ (pc' = "done") =>
                (result' = glob_pktdrv_recvbuff.lenfld - 60)
    ]_vars

\* C5: the first frame of a transaction carries the sequence byte of the
\* frame transmitted before it plus one modulo 256 (so a different one), and
\* a retransmission carries the sequence byte of the frame before it.
C5_SequenceBytes ==
  [][ (txcount' = txcount + 1) =>
        /\ lastTx' = glob_pktdrv_sndbuff.b57
        /\ (txcount = 0 /\ lastTx # -1) =>
             (lastTx' = (lastTx + 1) % 256 /\ lastTx' # lastTx)
        /\ (txcount > 0) => (lastTx' = lastTx)
    ]_vars

\* a retransmission was made in a transaction whose sequence byte wrapped
\* from 255 to 0
C5_Witness == ntrans = 2 /\ txcount >= 2 /\ lastTx = 0

\* C6 as claimed: every change of the length word is 0 -> -N, -N -> +N or
\* +N -> 0.
C6_AsClaimed ==
  [][ (glob_pktdrv_recvbufflen' # glob_pktdrv_recvbufflen) =>
        \/ glob_pktdrv_recvbufflen = 0 /\ glob_pktdrv_recvbufflen' < 0
        \/ /\ glob_pktdrv_recvbufflen < 0
           /\ glob_pktdrv_recvbufflen' = 0 - glob_pktdrv_recvbufflen
        \/ glob_pktdrv_recvbufflen > 0 /\ glob_pktdrv_recvbufflen' = 0
    ]_vars

\* C6 amended: every change of the length word is one of
\*   0 -> -N   (first call reserves the empty buffer),
\*   -M -> -N  (first call reserves a buffer whose copy was never completed),
\*   -N -> +N  (second call),
\*   +N -> +L, 60 <= L < N (foreground stores the length field of a frame
\*             that passed the header checks),
\*   +N -> 0   (foreground resets or rejects),
\*   -N -> 0   (foreground reset at the start of a transaction).
C6_Amended ==
  [][ (glob_pktdrv_recvbufflen' # glob_pktdrv_recvbufflen) =>
        \/ glob_pktdrv_recvbufflen <= 0 /\ glob_pktdrv_recvbufflen' < 0
        \/ /\ glob_pktdrv_recvbufflen < 0
           /\ glob_pktdrv_recvbufflen' = 0 - glob_pktdrv_recvbufflen
        \/ /\ glob_pktdrv_recvbufflen > 0
           /\ glob_pktdrv_recvbufflen' >= 60
           /\ glob_pktdrv_recvbufflen' < glob_pktdrv_recvbufflen
           /\ glob_pktdrv_recvbufflen' = glob_pktdrv_recvbuff.lenfld
        \/ glob_pktdrv_recvbufflen > 0 /\ glob_pktdrv_recvbufflen' = 0
        \/ /\ glob_pktdrv_recvbufflen < 0 /\ glob_pktdrv_recvbufflen' = 0
           /\ pc' = "send"
    ]_vars

\* the foreground has stored a length field smaller than the delivered
\* length in the length word
C6_Witness ==
  /\ pc = "cksum"
  /\ glob_pktdrv_recvbufflen > 0
  /\ glob_pktdrv_recvbufflen < glob_pktdrv_recvbuff.len

\* C7 as claimed: the first call hands out the buffer, writing -N to the
\* length word, only when the length word is 0 and N is at most the buffer
\* size.
C7_AsClaimed ==
  [][ (~copying /\ copying') =>
        /\ glob_pktdrv_recvbufflen = 0
        /\ glob_pktdrv_recvbufflen' < 0
        /\ 0 - glob_pktdrv_recvbufflen' <= FRAMESIZE
    ]_vars

\* a foreground step: every step of sendquery that writes the length word
\* moves the foreground; a step of the upcall starts or ends a copy
ForegroundStep == pc' # pc

CallbackStep == copying' # copying

\* C8 as claimed: the foreground writes only 0 to the length word, nobody
\* else writes 0, and the upcall never changes it to 0.
C8_AsClaimed ==
  [][ (glob_pktdrv_recvbufflen' # glob_pktdrv_recvbufflen) =>
        /\ ForegroundStep => glob_pktdrv_recvbufflen' = 0
        /\ (glob_pktdrv_recvbufflen' = 0) => ForegroundStep
        /\ CallbackStep => glob_pktdrv_recvbufflen' # 0
    ]_vars

\* C8 amended: the foreground is the only writer of 0; the only other value
\* it writes is the length field L (60 <= L <= the delivered length) of a
\* frame that passed the header checks, over a positive length word; the
\* upcall is the only writer of negative values and the only one to turn a
\* length word that is not positive into a positive one, and never leaves it
\* at 0 after a call that changed it.
C8_Amended ==
  [][ (glob_pktdrv_recvbufflen' # glob_pktdrv_recvbufflen) =>
        /\ ForegroundStep =>
             \/ glob_pktdrv_recvbufflen' = 0
             \/ /\ glob_pktdrv_recvbufflen > 0
                /\ glob_pktdrv_recvbufflen' = glob_pktdrv_recvbuff.lenfld
                /\ glob_pktdrv_recvbufflen' >= 60
                /\ glob_pktdrv_recvbufflen' < glob_pktdrv_recvbufflen
        /\ (glob_pktdrv_recvbufflen' = 0) => ForegroundStep
        /\ (glob_pktdrv_recvbufflen' < 0) => CallbackStep
        /\ (glob_pktdrv_recvbufflen <= 0 /\ glob_pktdrv_recvbufflen' > 0)
             => CallbackStep
        /\ CallbackStep =>
             \/ glob_pktdrv_recvbufflen <= 0 /\ glob_pktdrv_recvbufflen' < 0
             \/ /\ glob_pktdrv_recvbufflen < 0
                /\ glob_pktdrv_recvbufflen' = 0 - glob_pktdrv_recvbufflen
    ]_vars

\* the foreground has accepted a reply and left a length field smaller than
\* the delivered length in the length word
C8_Witness ==
  /\ Accepted
  /\ glob_pktdrv_recvbufflen = glob_pktdrv_recvbuff.lenfld
  /\ glob_pktdrv_recvbufflen < glob_pktdrv_recvbuff.len

\* C9 as claimed: a poll of the timer declares the attempt timed out exactly
\* when the counter is at least two ticks (modulo 256) past t.
C9_AsClaimed ==
  [][ (pc = "poll" /\ pc' # "poll") => (TimeoutStep <=> Advance >= 2) ]_vars

\* C10 as claimed: the transaction does not end in a timeout while a valid
\* reply that was completed inside the wait window of one of its attempts is
\* waiting in the receive buffer.
C10_AsClaimed ==
  ~(pc = "done" /\ txcount > 0 /\ result = 65535 /\ intime /\ ValidReplyHeld)

\* C11: with the learn flag set a frame that passes every check but the one
\* on the source address goes on to acceptance, and the accepted reply's
\* source address becomes the peer address; the peer address changes at no
\* other step of sendquery (not when a frame is dropped, not with the learn
\* flag clear), the one other write being startup's before it calls
\* sendquery for discovery; every request of the resident program is transmitted to an address that
\* was configured or learned, never to the broadcast address.
C11_LearnPeer ==
  [][/\ (GLOB_RMAC' # GLOB_RMAC) =>
          \/ updatermac # 0 /\ pc = "cksum" /\ pc' = "done"
          \/ DiscoveryStarts
     /\ (pc = "cksum" /\ pc' = "done" /\ updatermac # 0) =>
          (GLOB_RMAC' = glob_pktdrv_recvbuff.smac)
     /\ (pc = "validate" /\ pc' # pc /\ updatermac # 0
           /\ HeaderOk(glob_pktdrv_recvbuff, glob_pktdrv_recvbufflen, 0,
                       glob_pktdrv_recvbuff.smac, seq)) =>
          (pc' = "cksum")
     /\ (pc = "send" /\ pc' = "poll" /\ installed) =>
          (GLOB_RMAC \in {PeerMac, OtherMac})]_vars

\* a request of the resident program was transmitted after discovery had
\* learned an address that was not the configured one
C11_Witness ==
  /\ installed
  /\ ntrans = 2
  /\ txcount > 0
  /\ seq = 2
  /\ GLOB_RMAC = OtherMac

\* the foreground hands glob_pktdrv_sndbuff to the packet driver
TransmitStep == pc = "send" /\ pc' = "poll"

\* bytes 56..len-1 of the frame in glob_pktdrv_sndbuff
SentBytes(b) == <<b.b56, b.b57, b.b58, b.b59>> \o b.pay

\* C32: with the checksum enabled, the word at 54..55 of every frame handed
\* to the packet driver is the rotating sum, from 0, of the bytes 56..len-1
\* of that frame as it is transmitted (sequence, drive, operation and
\* payload in place); from the first transmission of a call to its end the
\* send buffer, the peer address in it and the length do not change, so
\* every retransmission is the frame sent first.
C32_ChecksumOfFrame ==
  [][/\ (TransmitStep /\ CksumEnabled) =>
          /\ Len(SentBytes(glob_pktdrv_sndbuff)) = bufflen - 56
          /\ glob_pktdrv_sndbuff.len = bufflen
          /\ glob_pktdrv_sndbuff.cksum =
               bsdsumFrom(SentBytes(glob_pktdrv_sndbuff), 1, 0)
          /\ glob_pktdrv_sndbuff.b57 = seq
     /\ (txcount > 0 /\ pc' \notin {"idle", "done", "exit"}
           /\ ntrans' = ntrans) =>
          /\ glob_pktdrv_sndbuff' = glob_pktdrv_sndbuff
          /\ GLOB_RMAC' = GLOB_RMAC
          /\ bufflen' = bufflen
    ]_vars

\* a frame with a payload was sent a second time with the checksum enabled
C32_Witness ==
  /\ CksumEnabled
  /\ txcount = 2
  /\ pc = "poll"
  /\ glob_pktdrv_sndbuff.pay # <<>>
  /\ seq = 255

\* C33: while the length word is positive no copy is in progress, and a
\* step that is not the foreground's leaves the length word, the receive
\* buffer and the copy state as they are (the upcall hands out nothing and
\* negates nothing); the reply a call of sendquery returned stays in the
\* buffer, byte for byte, with its length word, until sendquery is called
\* again, whatever frames arrive.
C33_BufferHeld ==
  [][/\ glob_pktdrv_recvbufflen > 0 => ~copying
     /\ (glob_pktdrv_recvbufflen > 0 /\ ~ForegroundStep) =>
          /\ glob_pktdrv_recvbufflen' = glob_pktdrv_recvbufflen
          /\ glob_pktdrv_recvbuff' = glob_pktdrv_recvbuff
          /\ copying' = copying
     /\ (Accepted /\ ntrans' = ntrans) =>
          /\ glob_pktdrv_recvbufflen > 0
          /\ glob_pktdrv_recvbufflen' = glob_pktdrv_recvbufflen
          /\ glob_pktdrv_recvbuff' = glob_pktdrv_recvbuff
    ]_vars

\* a reply was returned to the resident program and is held in the buffer
C33_Witness ==
  /\ Accepted
  /\ installed
  /\ glob_pktdrv_recvbufflen = 66
  /\ glob_pktdrv_recvbuff = GoodReply(seq)
  /\ ~copying

\* a copy is in progress whose buffer was reserved before the foreground
\* last wrote 0 to the length word: a reservation leaves a negative length
\* word, and only the foreground turns it into 0
StaleCopy == copying /\ glob_pktdrv_recvbufflen = 0

\* C34: when sendquery resets the length word for a new transaction while a
\* copy is in progress, the copy is left with a length word of 0; a frame
\* is rejected only when no copy is in progress; the second call for a
\* copy with a length word of 0 leaves it at 0; the length word becomes
\* positive only by the second call for a reservation that is still
\* negative, that is one made after the latest reset, and the foreground
\* examines a frame only under a positive length word.
C34_NoStaleDelivery ==
  [][/\ (copying /\ pc \in {"idle", "done"} /\ pc' = "send") => StaleCopy'
     /\ (pc \in {"validate", "cksum"} /\ pc' = "poll") =>
          (~copying /\ glob_pktdrv_recvbufflen' = 0)
     /\ (StaleCopy /\ ~copying') => glob_pktdrv_recvbufflen' = 0
     /\ (glob_pktdrv_recvbufflen <= 0 /\ glob_pktdrv_recvbufflen' > 0) =>
          /\ copying /\ ~copying'
          /\ glob_pktdrv_recvbufflen < 0
          /\ glob_pktdrv_recvbufflen' = glob_pktdrv_recvbuff.len
     /\ pc \in {"validate", "cksum"} => glob_pktdrv_recvbufflen > 0
    ]_vars

\* the first attempt of a later transaction waits for its reply while the
\* copy of a frame reserved before the reset is still in progress
C34_Witness ==
  /\ StaleCopy
  /\ pc = "poll"
  /\ txcount = 1
  /\ ntrans > 1
  /\ glob_pktdrv_recvbuff.len > 0

(***************************************************************************)
(* Properties of the dispatcher (specification SpecDispatch)               *)
(***************************************************************************)
\* process2f starts on the request DOS prepared
EntryStep == p2f = "entry" /\ p2f' \in {"wait", "ret"}

\* a sendquery call that transmitted its request returns
ExchangeStep == p2f = "wait" /\ Len(sent') = Len(sent) + 1

\* the call returns to DOS with carry set and status x
FailsWith(x) ==
  /\ p2f' = "ret"
  /\ glob_intregs'.cf = 1
  /\ glob_intregs'.ax = x

\* the status reported when the transaction times out (section 4.E)
TimeoutFallback(al) ==
  IF al = AL_FINDNEXT THEN 18 ELSE IF al = AL_CHDIR THEN 3 ELSE 2

\* C12 as claimed: whenever the transaction of a forwarded operation times
\* out, the request returns with carry set and AX = 18 (FINDNEXT), 3 (CHDIR)
\* or 2 (any other operation).
C12_AsClaimed ==
  [][(ExchangeStep /\ loc'.val = TimeoutResult) =>
       FailsWith(TimeoutFallback(subfunction))]_vars

\* C13 as claimed: whenever the reply accepted for an operation other than
\* DISKSPACE carries a nonzero status, the request returns with carry set
\* and AX equal to that status.
C13_AsClaimed ==
  [][(ExchangeStep /\ loc'.val # TimeoutResult /\ loc'.st # 0
        /\ subfunction # AL_DISKSPACE) =>
       FailsWith(loc'.st)]_vars

\* the operations whose reply has one expected payload length
LenCheckedOps ==
  {AL_MKDIR, AL_RMDIR, AL_CHDIR, AL_SETATTR, AL_RENAME, AL_DELETE,
   AL_GETATTR, AL_OPEN, AL_CREATE, AL_SPOPNFIL, AL_FINDFIRST, AL_FINDNEXT,
   AL_SKFMEND, AL_WRITEFIL, AL_DISKSPACE}

ExpectedLen(al) ==
  CASE al = AL_GETATTR -> 9
    [] al \in {AL_OPEN, AL_CREATE, AL_SPOPNFIL} -> 25
    [] al \in {AL_FINDFIRST, AL_FINDNEXT} -> 24
    [] al = AL_SKFMEND -> 4
    [] al = AL_WRITEFIL -> 2
    [] al = AL_DISKSPACE -> 6
    [] OTHER -> 0

\* C14 as claimed: whenever the accepted reply's payload length is not the
\* one expected for the operation, the request returns as after a timeout:
\* carry set and AX the fallback status of the operation.
C14_AsClaimed ==
  [][(ExchangeStep /\ loc'.val # TimeoutResult
        /\ subfunction \in LenCheckedOps
        /\ loc'.val # ExpectedLen(subfunction)) =>
       FailsWith(TimeoutFallback(subfunction))]_vars

StatusOnlyOps ==
  {AL_RMDIR, AL_MKDIR, AL_CHDIR, AL_CLSFIL, AL_READFIL, AL_WRITEFIL,
   AL_LOCKFIL, AL_SETATTR, AL_RENAME, AL_DELETE, AL_OPEN, AL_CREATE,
   AL_SPOPNFIL, AL_FINDFIRST, AL_FINDNEXT}

\* C15 as claimed: a status-only operation has returned either with carry
\* clear and AX = 0 or with carry set and AX nonzero, never with carry set
\* and AX = 0.
C15_AsClaimed ==
  (p2f = "ret" /\ ncalls > 0 /\ subfunction \in StatusOnlyOps) =>
    \/ (glob_intregs.cf = 0 /\ glob_intregs.ax = 0)
    \/ (glob_intregs.cf = 1 /\ glob_intregs.ax # 0)

\* the request DOS prepared, before process2f has touched anything
ReqAl == glob_intregs.ax % 256

HasWildcard(s) == \E i \in 1..Len(s) : s[i] \in {42, 63}

\* the local pre-check the prepared request fails, as its status (0: none):
\* wildcard in the path of OPEN, CREATE, SPOPNFIL; RENAME across drives;
\* wildcard in the new path of a RENAME of a qualified old path; RMDIR of
\* the current directory; READFIL on a write-only SFT; WRITEFIL on a
\* read-only SFT
PreCheck ==
  CASE ReqAl \in {AL_OPEN, AL_CREATE, AL_SPOPNFIL}
         /\ HasWildcard(glob_sdaptr.fn1) -> 3
    [] ReqAl = AL_RENAME
         /\ CharAt(glob_sdaptr.fn1, 0) # CharAt(glob_sdaptr.fn2, 0) -> 2
    [] ReqAl = AL_RENAME
         /\ CharAt(glob_sdaptr.fn1, 0) = CharAt(glob_sdaptr.fn2, 0)
         /\ Len(glob_sdaptr.fn1) >= 2
         /\ HasWildcard(glob_sdaptr.fn2) -> 3
    [] ReqAl = AL_RMDIR
         /\ glob_sdaptr.fn1 = glob_sdaptr.drive_cdsptr -> 16
    [] ReqAl = AL_READFIL /\ sft.open_mode % 2 = 1 -> 5
    [] ReqAl = AL_WRITEFIL /\ sft.open_mode % 4 = 0 -> 5
    [] OTHER -> 0

\* C16: a request that fails one of the local pre-checks returns at once
\* with carry set and the status of that pre-check; no request is handed to
\* sendquery, nothing is transmitted and the sequence counter keeps its
\* value.  A same-drive RENAME with a wildcard in its new path is turned
\* down in this way whatever its old path is (with status 2 when the old
\* path is shorter than two characters, which is tested first).
C16_PreChecks ==
  [][EntryStep =>
       /\ PreCheck # 0 =>
            (FailsWith(PreCheck) /\ sent' = <<>> /\ seq' = seq)
       /\ (ReqAl = AL_RENAME /\ HasWildcard(glob_sdaptr.fn2)) =>
            /\ p2f' = "ret"
            /\ glob_intregs'.cf = 1
            /\ glob_intregs'.ax \in {2, 3}
            /\ sent' = <<>>
            /\ seq' = seq]_vars

\* a RENAME with a wildcard in its new name has been turned down
C16_Witness ==
  /\ p2f = "ret"
  /\ ncalls > 0
  /\ subfunction = AL_RENAME
  /\ HasWildcard(glob_sdaptr.fn2)
  /\ glob_intregs.cf = 1
  /\ glob_intregs.ax = 3
  /\ sent = <<>>

\* C17 as claimed: a path-bearing request whose primary path is just "D:"
\* (two characters) returns at once with carry set and the fallback status
\* of the operation, and no request is sent.
C17_AsClaimed ==
  [][(EntryStep /\ ReqAl \in PathOps /\ Len(glob_sdaptr.fn1) = 2) =>
       (FailsWith(TimeoutFallback(ReqAl)) /\ sent' = <<>>)]_vars

\* payload length of a request whose path is empty after the drive
EmptyPathLen(al) ==
  CASE al \in {AL_SETATTR, AL_FINDFIRST} -> 1
    [] al \in {AL_OPEN, AL_CREATE, AL_SPOPNFIL} -> 6
    [] OTHER -> 0

\* C17 amended: only a primary path shorter than two characters is turned
\* down for want of a path (status 3 for MKDIR, CHDIR, OPEN, CREATE and
\* SPOPNFIL, status 2 for SETATTR, GETATTR, DELETE and a same-drive RENAME),
\* and then nothing is sent.  A primary path of exactly two characters is
\* forwarded with an empty path by MKDIR, CHDIR, SETATTR, GETATTR, DELETE,
\* OPEN, CREATE, SPOPNFIL and FINDFIRST, and by a RENAME whose new path
\* passes its checks; RMDIR turns it down with status 16, the two characters
\* being a prefix of the current directory.
C17_Amended ==
  [][EntryStep =>
       LET n == Len(glob_sdaptr.fn1) IN
       /\ (n < 2 /\ ReqAl \in {AL_MKDIR, AL_CHDIR, AL_OPEN, AL_CREATE,
                              AL_SPOPNFIL}) =>
            (FailsWith(3) /\ sent' = <<>> /\ seq' = seq)
       /\ (n < 2 /\ (ReqAl \in {AL_SETATTR, AL_GETATTR, AL_DELETE}
                     \/ (ReqAl = AL_RENAME /\ PreCheck = 0))) =>
            (FailsWith(2) /\ sent' = <<>> /\ seq' = seq)
       /\ (n = 2 /\ ReqAl \in PathOps \ {AL_RMDIR, AL_RENAME}) =>
            (p2f' = "wait" /\ pending'.op = ReqAl
               /\ pending'.plen = EmptyPathLen(ReqAl))
       /\ (n = 2 /\ ReqAl = AL_RENAME /\ PreCheck = 0) =>
            (p2f' = "wait" /\ pending'.op = ReqAl /\ pending'.pay[1] = 0
               /\ pending'.plen = 1 + (Len(glob_sdaptr.fn2) - 2))
       /\ (n = 2 /\ ReqAl = AL_RMDIR
             /\ CharAt(glob_sdaptr.drive_cdsptr, 0) = glob_sdaptr.fn1[1]
             /\ CharAt(glob_sdaptr.drive_cdsptr, 1) = glob_sdaptr.fn1[2]) =>
            (FailsWith(16) /\ sent' = <<>> /\ seq' = seq)]_vars

\* a MKDIR of "C:" has been transmitted with an empty path
C17_Witness ==
  /\ subfunction = AL_MKDIR
  /\ Len(glob_sdaptr.fn1) = 2
  /\ Len(sent) = 1
  /\ sent[1].plen = 0
  /\ sent[1].pay = <<>>

\* C18 as claimed: a READFIL never puts more bytes in the caller's buffer
\* than the count asked in CX; when it returns with success the file
\* position has advanced by the number of bytes delivered and CX holds that
\* number; it stops at the first reply shorter than the chunk asked for.
C18_AsClaimed ==
  [][(ExchangeStep /\ subfunction = AL_READFIL) =>
       /\ dta'.fill <= glob_intregs.cx
       /\ (p2f' = "ret" /\ glob_intregs'.cf = 0) =>
            /\ sft'.file_pos = sft.file_pos + dta'.fill
            /\ glob_intregs'.cx = dta'.fill
       /\ (loc'.val # TimeoutResult /\ loc'.val < loc.chunklen) =>
            (p2f' = "ret")]_vars

\* C19: a READFIL of 0 bytes on an SFT that is not write-only returns with
\* success at once: no request is handed to sendquery, nothing is
\* transmitted, and the sequence counter, the SFT, the caller's buffer and
\* CX keep their values.
C19_ReadNothing ==
  [][(EntryStep /\ ReqAl = AL_READFIL /\ glob_intregs.cx = 0
        /\ sft.open_mode % 2 = 0) =>
       /\ p2f' = "ret"
       /\ glob_intregs'.cf = 0
       /\ glob_intregs'.ax = 0
       /\ glob_intregs'.cx = 0
       /\ sent' = <<>>
       /\ seq' = seq
       /\ sft' = sft
       /\ dta' = dta]_vars

\* a READFIL of 0 bytes has returned
C19_Witness ==
  /\ p2f = "ret"
  /\ subfunction = AL_READFIL
  /\ ncalls > 0
  /\ sft.open_mode % 2 = 0
  /\ glob_intregs.cx = 0
  /\ glob_intregs.cf = 0
  /\ sent = <<>>
  /\ loc.totreadlen = 0

\* every reply so far to the READFIL in progress was a full chunk
FullSoFar ==
  /\ subfunction = AL_READFIL
  /\ p2f = "wait"
  /\ loc.totreadlen = Len(sent) * (FRAMESIZE - 60)
  /\ loc.totreadlen < glob_intregs.cx

\* C20: while the peer returns full chunks, the k-th request (k = 0, 1, ...)
\* of a READFIL of CX bytes at position P carries offset P + k*M, the file
\* id of the SFT and chunk length min(M, CX - k*M), M = FRAMESIZE - 60; the
\* READFIL returns after exactly ceil(CX / M) exchanges with the position at
\* P + CX and CX as it was.
C20_FullChunks ==
  [][FullSoFar =>
       LET M == FRAMESIZE - 60
           k == Len(sent)
           rest == glob_intregs.cx - k * M
           clen == IF rest < M THEN rest ELSE M
       IN
       /\ pending.op = AL_READFIL
       /\ pending.pay = <<sft.file_pos + k * M, sft.start_sector, clen>>
       /\ (ExchangeStep /\ loc'.val = clen /\ loc'.st = 0) =>
            IF rest <= M
              THEN /\ p2f' = "ret"
                   /\ glob_intregs'.cf = 0
                   /\ glob_intregs'.cx = glob_intregs.cx
                   /\ sft'.file_pos = sft.file_pos + glob_intregs.cx
                   /\ Len(sent') = (glob_intregs.cx + M - 1) \div M
              ELSE /\ p2f' = "wait"
                   /\ Len(sent') < (glob_intregs.cx + M - 1) \div M]_vars

\* a READFIL of 2048 bytes at position 0 has returned after two exchanges,
\* the second one at offset FRAMESIZE - 60
C20_Witness ==
  /\ p2f = "ret"
  /\ subfunction = AL_READFIL
  /\ glob_intregs.cf = 0
  /\ glob_intregs.cx = 2048
  /\ sft.file_pos = 2048
  /\ Len(sent) = 2
  /\ sent[1].pay[1] = 0
  /\ sent[2].pay = <<1030, FileId, 1018>>

\* C21: a WRITEFIL on an SFT that is not read-only hands a request to
\* sendquery at once (with CX = 0 one of 6 bytes: offset and file id, no
\* data), and it does not return before a request was transmitted.
C21_WriteAtLeastOnce ==
  [][/\ (EntryStep /\ ReqAl = AL_WRITEFIL /\ sft.open_mode % 4 # 0) =>
          /\ p2f' = "wait"
          /\ pending'.op = AL_WRITEFIL
          /\ ~QueryTooLong(pending'.plen + 60)
          /\ pending'.pay[1] = sft.file_pos
          /\ pending'.pay[2] = sft.start_sector
          /\ glob_intregs.cx = 0 => pending'.plen = 6
     /\ (subfunction = AL_WRITEFIL /\ p2f = "wait" /\ p2f' = "ret") =>
          Len(sent') >= 1]_vars

\* a WRITEFIL of 0 bytes has returned with success after one exchange
C21_Witness ==
  /\ p2f = "ret"
  /\ subfunction = AL_WRITEFIL
  /\ glob_intregs.cf = 0
  /\ glob_intregs.cx = 0
  /\ Len(sent) = 1
  /\ sent[1].plen = 6
  /\ sent[1].pay[4] = 0

\* the reply to a WRITEFIL chunk was accepted with status 0 and two bytes
WriteAccepted ==
  /\ ExchangeStep
  /\ subfunction = AL_WRITEFIL
  /\ loc'.val = 2
  /\ loc'.st = 0

\* C22 as claimed: after each successful chunk of a WRITEFIL the file
\* position has advanced by the count the peer reported, the file size is
\* the larger of its old value and the new position, and CX is the total of
\* the counts reported so far; a reply whose count differs from the chunk
\* length sent ends the call; every request carries the file position of
\* the SFT at the time it is sent.
C22_AsClaimed ==
  [][/\ WriteAccepted =>
          LET n == Word(loc'.ans, 0) IN
          /\ sft'.file_pos = sft.file_pos + n
          /\ sft'.file_size =
               IF sft'.file_pos > sft.file_size THEN sft'.file_pos
                                                ELSE sft.file_size
          /\ glob_intregs'.cx = loc.written + n
          /\ n # loc.chunklen => p2f' = "ret"
     /\ (subfunction' = AL_WRITEFIL /\ p2f' = "wait") =>
          pending'.pay[1] = sft'.file_pos]_vars

\* OPEN, CREATE or SPOPNFIL returns with success
OpenSucceeds ==
  /\ ExchangeStep
  /\ subfunction \in {AL_OPEN, AL_CREATE, AL_SPOPNFIL}
  /\ p2f' = "ret"
  /\ glob_intregs'.cf = 0

\* C23: after a successful OPEN, CREATE or SPOPNFIL on drive glob_reqdrv
\* (loc.reqdrv) the SFT has device-info-word 8040h | glob_reqdrv (low 6
\* bits glob_reqdrv),
\* position 0, and the file id, size, attribute and 11-byte name of the
\* reply; the high byte of its open-mode is as before the call and the low
\* byte is the open-mode byte of the reply; after SPOPNFIL CX is the word
\* the reply echoes.
C23_SftAfterOpen ==
  [][OpenSucceeds =>
       LET a == loc'.ans IN
       /\ Len(a) = 25
       /\ sft'.dev_info_word = 32832 + loc'.reqdrv
       /\ sft'.dev_info_word % 64 = loc'.reqdrv
       /\ loc'.reqdrv = DRIVETONUM(glob_sdaptr.fn1[1])
       /\ sft'.file_pos = 0
       /\ sft'.start_sector = a[21] + 256 * a[22]
       /\ sft'.file_size =
            a[17] + 256 * a[18] + 65536 * (a[19] + 256 * a[20])
       /\ sft'.file_attr = a[1]
       /\ sft'.file_name = SubSeq(a, 2, 12)
       /\ sft'.open_mode \div 256 = sft.open_mode \div 256
       /\ sft'.open_mode % 256 = a[25]
       /\ subfunction = AL_SPOPNFIL =>
            glob_intregs'.cx = a[23] + 256 * a[24]
       /\ subfunction # AL_SPOPNFIL =>
            glob_intregs'.cx = glob_intregs.cx]_vars

\* a SPOPNFIL on an SFT with open-mode 2142h has succeeded
C23_Witness ==
  /\ p2f = "ret"
  /\ subfunction = AL_SPOPNFIL
  /\ glob_intregs.cf = 0
  /\ Len(sent) = 1
  /\ sft.open_mode \div 256 = 33
  /\ sft.open_mode % 256 = AnswerBytes(25)[25]
  /\ sft.start_sector = Word(AnswerBytes(25), 10)
  /\ sft.file_pos = 0
  /\ glob_intregs.cx = Word(AnswerBytes(25), 11)

\* C24: CLSFIL takes one off the handle count of the SFT, unless it is 0,
\* before it hands its request to sendquery (nothing was transmitted yet);
\* whatever sendquery returns then (a reply with status 0 or not, of any
\* length, or a timeout), the SFT keeps that count.
C24_CloseDecrements ==
  [][/\ (EntryStep /\ ReqAl = AL_CLSFIL) =>
          /\ sft'.handle_count =
               (IF sft.handle_count = 0 THEN 0 ELSE sft.handle_count - 1)
          /\ sft' = [sft EXCEPT !.handle_count = sft'.handle_count]
          /\ p2f' = "wait"
          /\ pending'.op = AL_CLSFIL
          /\ sent' = <<>>
     /\ (subfunction = AL_CLSFIL /\ p2f = "wait") => sft' = sft]_vars

\* a CLSFIL on an SFT with two handles has timed out
C24_Witness ==
  /\ p2f = "ret"
  /\ subfunction = AL_CLSFIL
  /\ loc.val = TimeoutResult
  /\ Len(sent) = 1
  /\ sft.handle_count = 1
  /\ ncalls = 1

\* C25: no step of a CHDIR changes the current directory of the drive, the
\* SFT or the data area; of the swappable data area only the FCB form of the
\* name, which inthandler normalises, changes; the call only sets AX and the
\* carry flag.
C25_ChdirKeepsCds ==
  [][((EntryStep /\ ReqAl = AL_CHDIR)
        \/ (subfunction = AL_CHDIR /\ p2f = "wait")) =>
       /\ glob_sdaptr'.drive_cdsptr = glob_sdaptr.drive_cdsptr
       /\ glob_sdaptr' =
            [glob_sdaptr EXCEPT !.fcb_fn1 = glob_sdaptr'.fcb_fn1]
       /\ sft' = sft
       /\ dta' = dta
       /\ glob_intregs' =
            [glob_intregs EXCEPT !.ax = glob_intregs'.ax,
                                 !.cf = glob_intregs'.cf]]_vars

\* a CHDIR to a directory other than the current one was answered with
\* success
C25_Witness ==
  /\ p2f = "ret"
  /\ subfunction = AL_CHDIR
  /\ Len(sent) = 1
  /\ loc.val = 0
  /\ loc.st = 0
  /\ glob_intregs.cf = 0
  /\ glob_sdaptr.fn1 # glob_sdaptr.drive_cdsptr

\* C26: a RMDIR whose path is the current directory of the drive returns at
\* once with carry set and AX = 16; no request is handed to sendquery and
\* nothing is transmitted.
C26_RmdirCurrent ==
  [][(EntryStep /\ ReqAl = AL_RMDIR
        /\ glob_sdaptr.fn1 = glob_sdaptr.drive_cdsptr) =>
       /\ p2f' = "ret"
       /\ glob_intregs'.cf = 1
       /\ glob_intregs'.ax = 16
       /\ pending' = NoQuery
       /\ sent' = <<>>
       /\ seq' = seq]_vars

\* a RMDIR of the current directory has been turned down
C26_Witness ==
  /\ p2f = "ret"
  /\ subfunction = AL_RMDIR
  /\ glob_sdaptr.fn1 = glob_sdaptr.drive_cdsptr
  /\ Len(glob_sdaptr.fn1) > 2
  /\ glob_intregs.cf = 1
  /\ glob_intregs.ax = 16
  /\ sent = <<>>

\* the request DOS raised is none of this program's: another multiplex
\* number, a subfunction without a case, or a drive above 25 or not mapped
NotOurs ==
  LET ah == glob_intregs.ax \div 256
      al == glob_intregs.ax % 256
  IN \/ ah \notin {17, glob_multiplexid}
     \/ ah = 17 /\ al \notin Subfunctions
     \/ /\ ah = 17
        /\ al \in Subfunctions
        /\ \/ ReqDrv(al, Cur) > 25
           \/ ldrv[ReqDrv(al, Cur)] = 255

\* C27: a request with a subfunction that is not recognised, or about a
\* drive above 25 or not in the drive map, goes to the previous handler as
\* it came: nothing is handed to sendquery or transmitted, the sequence
\* counter keeps its value, and the registers, the SFT, the data area and
\* the swappable data area are unchanged.
C27_ChainUnchanged ==
  [][(p2f = "entry" /\ NotOurs) =>
       /\ p2f' = "chain"
       /\ glob_intregs' = glob_intregs
       /\ sft' = sft
       /\ dta' = dta
       /\ glob_sdaptr' = glob_sdaptr
       /\ pending' = NoQuery
       /\ sent' = <<>>
       /\ seq' = seq]_vars

\* a MKDIR on drive D:, which is not mapped, went to the previous handler
C27_Witness ==
  /\ p2f = "chain"
  /\ glob_intregs.ax = 4352 + AL_MKDIR
  /\ glob_sdaptr.fn1 = <<68, 58, 92, 65>>
  /\ glob_sdaptr.fcb_fn1 = Blank11
  /\ sent = <<>>

\* C28 as claimed: every request a LOCKFIL call transmits has operation
\* code 0Ah + BL with BL 0 or 1, never another code than 0Ah or 0Bh; a
\* LOCKFIL with BL above 1 has failed with status 2 when it returns.
C28_AsClaimed ==
  (subfunction = AL_LOCKFIL /\ p2f \in {"wait", "ret"}) =>
    /\ \A i \in 1..Len(sent) :
         /\ sent[i].op \in {10, 11}
         /\ sent[i].op = 10 + (glob_intregs.bx % 256)
    /\ (p2f = "ret" /\ glob_intregs.bx % 256 > 1) =>
         (glob_intregs.cf = 1 /\ glob_intregs.ax = 2)

\* FINDFIRST or FINDNEXT returns with success
FindSucceeds ==
  /\ ExchangeStep
  /\ subfunction \in {AL_FINDFIRST, AL_FINDNEXT}
  /\ p2f' = "ret"
  /\ glob_intregs'.cf = 0

\* C29: after a successful FINDFIRST or FINDNEXT the search block holds the
\* two tokens of the reply (the words at its bytes 20 and 22); FINDFIRST
\* also stores the drive with bit 7 set, the search attribute and the
\* 11-byte template, which FINDNEXT leaves alone.  A FINDNEXT sends the two
\* tokens, the attribute and the template of its block, 16 bytes, and is
\* taken for the drive whose number is in the low bits of the drive byte.
C29_FindTokens ==
  [][/\ FindSucceeds =>
          LET a == loc'.ans IN
          /\ dta'.par_clstr = a[21] + 256 * a[22]
          /\ dta'.dir_entry = a[23] + 256 * a[24]
          /\ IF subfunction = AL_FINDFIRST
               THEN /\ dta'.drv_lett = 128 + loc'.reqdrv
                    /\ dta'.drv_lett % 32 = loc'.reqdrv
                    /\ loc'.reqdrv = DRIVETONUM(glob_sdaptr.drive_cdsptr[1])
                    /\ dta'.srch_attr = glob_sdaptr.srch_attr
                    /\ dta'.srch_tmpl = glob_sdaptr.fcb_fn1
                    /\ Len(dta'.srch_tmpl) = 11
               ELSE /\ dta'.drv_lett = dta.drv_lett
                    /\ dta'.srch_attr = dta.srch_attr
                    /\ dta'.srch_tmpl = dta.srch_tmpl
     /\ (p2f = "entry" /\ glob_intregs.ax = 4352 + AL_FINDNEXT
           /\ dta.drv_lett = 128 + glob_reqdrv) =>
          /\ p2f' = "wait"
          /\ pending'.op = AL_FINDNEXT
          /\ pending'.plen = 16
          /\ pending'.pay = <<dta.par_clstr, dta.dir_entry, dta.srch_attr,
                              dta.srch_tmpl>>
     /\ (p2f = "entry" /\ glob_intregs.ax = 4352 + AL_FINDNEXT
           /\ dta.drv_lett = 128 + 3) =>
          p2f' = "chain"]_vars

\* a FINDNEXT has sent the tokens the FINDFIRST before it got for C:\*
C29_Witness ==
  /\ ncalls = 2
  /\ subfunction = AL_FINDNEXT
  /\ Len(sent) = 1
  /\ sent[1].op = AL_FINDNEXT
  /\ sent[1].pay = <<Word(AnswerBytes(24), 10), Word(AnswerBytes(24), 11),
                     16, [Blank11 EXCEPT ![1] = 42]>>

SomeMappedInUse ==
  \E d \in 0..25 :
    /\ glob_data_ldrv[d] # 255
    /\ (d \notin DOMAIN drive_cds \/ drive_cds[d].flags # {})

\* the argument parseargv looks at maps a local drive that has a mapping
SecondMapping ==
  /\ startup = "parse"
  /\ argv # <<>>
  /\ Head(argv).k = "map"
  /\ DRIVETONUM(Head(argv).l) \in 0..25
  /\ glob_data_ldrv[DRIVETONUM(Head(argv).l)] # 255

\* C31: when a mapped local drive is in use by the host, the test of the
\* drives ends startup with exit status 1: the packet driver was not opened,
\* no transaction was started, no current-directory structure changes and
\* the hook is not installed (main() has returned: nothing follows); an
\* argument that maps a local drive a second time ends startup with exit
\* status 1 while the arguments are parsed, the map as it was.
C31_DriveInUse ==
  [][/\ (startup = "check" /\ SomeMappedInUse) =>
          /\ startup' = "exit"
          /\ exitstatus' = 1
          /\ ~pktdrv_open /\ ~pktdrv_open'
          /\ ntrans' = 0 /\ txcount' = 0
          /\ drive_cds' = drive_cds
          /\ ~installed'
     /\ SecondMapping =>
          /\ startup' = "exit"
          /\ exitstatus' = 1
          /\ glob_data_ldrv' = glob_data_ldrv
          /\ ~pktdrv_open' /\ ~installed'
     /\ startup # "exit"
    ]_vars

C31_Witness ==
  /\ startup = "exit"
  /\ exitstatus = 1
  /\ argv = <<>>
  /\ gotmac
  /\ \E d \in DOMAIN drive_cds :
       glob_data_ldrv[d] # 255 /\ drive_cds[d].flags # {}
  /\ ~pktdrv_open
  /\ ntrans = 0

(***************************************************************************)
(* Properties of the dispatcher, continued                                 *)
(***************************************************************************)
\* C35 as claimed: a call of sendquery that returns a value other than
\* 0xFFFF has transmitted its request, and a forwarded operation that ends
\* with carry clear ends on a call of sendquery that transmitted the request
\* and returned a reply.
C35_AsClaimed ==
  [][(p2f = "wait" /\ p2f' # "entry") =>
       /\ (loc'.val # TimeoutResult) => (Len(sent') = Len(sent) + 1)
       /\ (p2f' = "ret" /\ glob_intregs'.cf = 0) =>
            (Len(sent') = Len(sent) + 1 /\ loc'.val # TimeoutResult)
    ]_vars

\* C36 as claimed: a RMDIR whose path (of two characters or more) differs
\* from the current directory of the drive is handed to sendquery, a path
\* that is a proper prefix of the current directory included; it is not
\* answered with status 16.
C36_AsClaimed ==
  [][(EntryStep /\ ReqAl = AL_RMDIR
        /\ Len(glob_sdaptr.fn1) >= 2
        /\ glob_sdaptr.fn1 # glob_sdaptr.drive_cdsptr) =>
       /\ p2f' = "wait"
       /\ pending'.op = AL_RMDIR
       /\ glob_intregs'.ax # 16]_vars

\* the operations that fill in or update a block of the caller: the SFT
\* entry or the directory-search block
BlockOps ==
  {AL_OPEN, AL_CREATE, AL_SPOPNFIL, AL_FINDFIRST, AL_FINDNEXT, AL_READFIL,
   AL_SKFMEND}

\* the directory-search fields of the block at the disk transfer address
SearchBlock(d) ==
  <<d.drv_lett, d.srch_tmpl, d.srch_attr, d.par_clstr, d.dir_entry>>

\* C37: in OPEN, CREATE, SPOPNFIL, FINDFIRST, FINDNEXT, READFIL and SKFMEND
\* a step of process2f that changes a field of the SFT entry or a
\* directory-search field is the last step of the call and leaves carry
\* clear; a call that returns with carry set has therefore left both blocks
\* as the caller supplied them.
C37_BlocksOnFailure ==
  [][(p2f \in {"entry", "wait"} /\ subfunction' \in BlockOps
        /\ (sft' # sft \/ SearchBlock(dta') # SearchBlock(dta))) =>
       (p2f' = "ret" /\ glob_intregs'.cf = 0)]_vars

\* a READFIL failed on its second chunk after a first chunk was received
C37_Witness ==
  /\ p2f = "ret"
  /\ subfunction = AL_READFIL
  /\ glob_intregs.cf = 1
  /\ Len(sent) = 2
  /\ loc.totreadlen > 0
  /\ sft = Sft0

\* a step of process2f in a WRITEFIL: from its entry to the first call of
\* sendquery or to its end, or from one call of sendquery to the next or to
\* its end
WritefilStep ==
  /\ p2f \in {"entry", "wait"}
  /\ p2f' \in {"wait", "ret"}
  /\ subfunction' = AL_WRITEFIL

\* C38 as claimed: over OPEN, READFIL and WRITEFIL calls on one SFT entry,
\* with a peer that returns no more bytes than were requested or sent, the
\* file position is at most the file size when a WRITEFIL returns, and no
\* step of a WRITEFIL makes the file size smaller.
C38_AsClaimed ==
  [][WritefilStep =>
       /\ (p2f' = "ret" /\ onesft') => sft'.file_pos <= sft'.file_size
       /\ sft'.file_size >= sft.file_size]_vars

\* C38: no step of a WRITEFIL makes the file size smaller, a zero-byte
\* write below the size included; only a step that accepts the reply to a
\* chunk changes the SFT entry, and after such a step the file position is
\* at most the file size; a WRITEFIL that started with the position at most
\* the size keeps it so at every step.  (A WRITEFIL that returns before a
\* chunk was acknowledged leaves a position beyond the size where READFIL
\* put it.)
C38_WritefilSize ==
  [][WritefilStep =>
       /\ sft'.file_size >= sft.file_size
       /\ sft' # sft => WriteAccepted
       /\ WriteAccepted => sft'.file_pos <= sft'.file_size
       /\ sft.file_pos <= sft.file_size =>
            sft'.file_pos <= sft'.file_size]_vars

\* the second call on a file, a WRITEFIL of 0 bytes at position 10 below
\* the size, has returned with success and the size is as it was
C38_Witness ==
  /\ p2f = "ret"
  /\ ncalls = 2
  /\ onesft
  /\ subfunction = AL_WRITEFIL
  /\ glob_intregs.cf = 0
  /\ Len(sent) = 1
  /\ sent[1].plen = 6
  /\ sft.file_pos = 10
  /\ sft.file_size = 4096

\* the operations on an open file that send a request
HandleOps == {AL_CLSFIL, AL_READFIL, AL_WRITEFIL, AL_LOCKFIL, AL_SKFMEND}

\* the local drive of the request in progress, read off what DOS handed
\* over: the SFT entry, the search block, the current directory or fn1
DriveOfRequest ==
  IF subfunction \in HandleOps THEN sft.dev_info_word % 64
  ELSE IF subfunction = AL_FINDNEXT THEN dta.drv_lett % 32
  ELSE IF subfunction \in {AL_DISKSPACE, AL_FINDFIRST}
    THEN DRIVETONUM(glob_sdaptr.drive_cdsptr[1])
  ELSE DRIVETONUM(glob_sdaptr.fn1[1])

\* C39: the drive byte (byte 58) of every request transmitted is the remote
\* drive, 0..25 and never 0FFh, that the map gives for the local drive of
\* the request; a successful OPEN, CREATE or SPOPNFIL on local drive d
\* leaves d in the low bits of the device-info-word, and CLSFIL, READFIL,
\* WRITEFIL, LOCKFIL and SKFMEND take the drive from there, so that a
\* request on an SFT entry an open on d filled carries the remote drive of d.
C39_RemoteDrive ==
  [][/\ ExchangeStep =>
          LET q == sent'[Len(sent')] IN
          /\ DriveOfRequest \in 0..25
          /\ q.drive = ldrv[DriveOfRequest]
          /\ q.drive \in 0..25
     /\ OpenSucceeds =>
          /\ sft'.dev_info_word % 64 = DRIVETONUM(glob_sdaptr.fn1[1])
          /\ sft'.rel_sector = 65535
     /\ (EntryStep /\ ReqAl \in HandleOps /\ p2f' = "wait") =>
          /\ sft'.dev_info_word = sft.dev_info_word
          /\ pending'.drive = ldrv[sft.dev_info_word % 64]]_vars

\* a READFIL on the SFT entry that an open on F: filled has returned: its
\* request carried remote drive 0, the one F: is mapped to
C39_Witness ==
  /\ p2f = "ret"
  /\ ncalls = 2
  /\ subfunction = AL_READFIL
  /\ sft.rel_sector = 65535
  /\ sft.dev_info_word = 32832 + 5
  /\ Len(sent) >= 1
  /\ sent[1].drive = 0
  /\ ldrv[5] = 0

(***************************************************************************)
(* Properties of WRITEFIL over the transport (specification SpecLive)      *)
(***************************************************************************)
\* the foreground is inside a call of sendquery that has not returned
InSendquery == pc = "send" \/ Waiting

\* CX of the WRITEFIL in progress: written counts what bytesleft has lost
WriteCx == (loc.written + loc.bytesleft) % 65536

\* max(1, ceil(cx / C)) with C the largest data part of a WRITEFIL request
ExchangeBound(cx) ==
  IF cx = 0 THEN 1 ELSE (cx + WriteChunkMax - 1) \div WriteChunkMax

====
